---- MODULE Spec2Model ----
(***************************************************************************)
(* A model of the i256 fixed-width integer types (u256 and its signed      *)
(* counterpart).                                                           *)
(*                                                                         *)
(* Representation.  A native integer (u8, u32, u64, a limb, a wide word)   *)
(* is the sequence of its bytes in order of significance, least            *)
(* significant first; its width is the length of the sequence.  An array   *)
(* in memory is a sequence of such integers, or of bytes.  A value of the  *)
(* 256-bit type is the record [limbs |-> <array of LIMBS limbs>], the      *)
(* limbs in memory (native) order, exactly as the struct of the source.    *)
(*                                                                         *)
(* The build configuration (limb width, target endianness, signedness of   *)
(* the instantiated type, overflow checks) is chosen in the initial state  *)
(* and never changes.                                                      *)
(***************************************************************************)
EXTENDS Integers, Sequences, FiniteSets, TLC

VARIABLES
    limb_bits,        \* ULimb::BITS of the build: 32 or 64
    big_endian,       \* cfg!(target_endian = "big")
    is_signed,        \* the instantiated type is the signed one
    overflow_checks,  \* cfg!(have_overflow_checks)
    a, b,             \* operands (values of the 256-bit type)
    arg,              \* a scalar operand (a limb, a shift amount, an exponent, a carry)
    raw,              \* a raw array of BYTES bytes handed to a from_* conversion
    op,               \* the operation that has been applied ("init" before)
    res               \* what it returned

vars == << limb_bits, big_endian, is_signed, overflow_checks, a, b, arg, raw, op, res >>

(***************************************************************************)
(* Sizes                                                                   *)
(***************************************************************************)
BITS == 256

\* How many of the sample inputs below the operands are drawn from.
NumSamples == 12

BYTES == BITS \div 8
U32_LEN == BYTES \div 4
U64_LEN == BYTES \div 8
LIMB_BYTES == limb_bits \div 8
WIDE_BYTES == 2 * LIMB_BYTES
LIMBS == BYTES \div LIMB_BYTES
WIDE == BYTES \div WIDE_BYTES

(***************************************************************************)
(* Sequences of bytes                                                      *)
(***************************************************************************)
Rep(n, x) == [i \in 1..n |-> x]

Rev(s) == [i \in 1..Len(s) |-> s[Len(s) + 1 - i]]

\* 0-based indexing, as in the source.
At(arr, i) == arr[i + 1]

Upd(arr, i, x) == [arr EXCEPT ![i + 1] = x]

\* The k-th (0-based) run of n elements of s.
Chunk(s, k, n) == SubSeq(s, k * n + 1, (k + 1) * n)

RECURSIVE Flat(_)
Flat(arrs) == IF arrs = << >> THEN << >> ELSE Head(arrs) \o Flat(Tail(arrs))

\* Primitive integers and memory: to_ne_bytes / from_ne_bytes / swap_bytes of
\* a native integer type.
prim_to_ne_bytes(x) == IF big_endian THEN Rev(x) ELSE x

prim_from_ne_bytes(bytes) == IF big_endian THEN Rev(bytes) ELSE bytes

prim_swap_bytes(x) == Rev(x)

\* mem::transmute between an array of n-byte integers and its bytes.
transmute_to_bytes(arr) == Flat([i \in 1..Len(arr) |-> prim_to_ne_bytes(arr[i])])

transmute_from_bytes(bytes, n) ==
    [k \in 1..(Len(bytes) \div n) |-> prim_from_ne_bytes(Chunk(bytes, k - 1, n))]

swap_array(arr) == Rev(arr)

ne_index(arr, i) == IF big_endian THEN At(arr, Len(arr) - 1 - i) ELSE At(arr, i)

ne_index_set(arr, i, x) ==
    IF big_endian THEN Upd(arr, Len(arr) - 1 - i, x) ELSE Upd(arr, i, x)

(***************************************************************************)
(* byte_order_define!: limbs, bytes, wide words, u32 and u64 arrays        *)
(***************************************************************************)
from_ne_limbs(limbs) == [limbs |-> limbs]

to_ne_limbs(self) == self.limbs

get_limb(self, index) == ne_index(self.limbs, index)

\* swap_bytes that reverses the order of the limbs and leaves their bytes.
swap_bytes_limbs_only(self) ==
    [limbs |-> [i \in 1..LIMBS |-> At(self.limbs, LIMBS - 1 - (i - 1))]]

swap_bytes(self) ==
    [limbs |-> [i \in 1..LIMBS |-> prim_swap_bytes(At(self.limbs, LIMBS - 1 - (i - 1)))]]

from_be(x) == IF big_endian THEN x ELSE swap_bytes(x)

from_le(x) == IF ~big_endian THEN x ELSE swap_bytes(x)

to_be(self) == IF big_endian THEN self ELSE swap_bytes(self)

to_le(self) == IF ~big_endian THEN self ELSE swap_bytes(self)

to_ne_bytes(self) == transmute_to_bytes(self.limbs)

to_be_bytes(self) == to_ne_bytes(to_be(self))

to_le_bytes(self) == to_ne_bytes(to_le(self))

from_ne_bytes(bytes) == from_ne_limbs(transmute_from_bytes(bytes, LIMB_BYTES))

from_be_bytes(bytes) == to_be(from_ne_bytes(bytes))

from_le_bytes(bytes) == to_le(from_ne_bytes(bytes))

to_be_limbs_on_big(self) ==
    IF big_endian THEN swap_array(to_ne_limbs(self)) ELSE to_ne_limbs(self)

to_be_limbs(self) ==
    IF ~big_endian THEN swap_array(to_ne_limbs(self)) ELSE to_ne_limbs(self)

to_le_limbs(self) ==
    IF ~big_endian THEN to_ne_limbs(self) ELSE swap_array(to_ne_limbs(self))

from_be_limbs(limbs) ==
    IF big_endian THEN from_ne_limbs(limbs) ELSE from_ne_limbs(swap_array(limbs))

from_le_limbs(limbs) ==
    IF big_endian THEN from_ne_limbs(swap_array(limbs)) ELSE from_ne_limbs(limbs)

to_ne_wide(self) == transmute_from_bytes(to_ne_bytes(self), WIDE_BYTES)

to_be_wide(self) ==
    IF ~big_endian THEN swap_array(to_ne_wide(self)) ELSE to_ne_wide(self)

to_le_wide(self) ==
    IF ~big_endian THEN to_ne_wide(self) ELSE swap_array(to_ne_wide(self))

from_ne_wide(wide) == from_ne_bytes(transmute_to_bytes(wide))

from_be_wide(wide) ==
    IF big_endian THEN from_ne_wide(wide) ELSE from_ne_wide(swap_array(wide))

from_le_wide(wide) ==
    IF big_endian THEN from_ne_wide(swap_array(wide)) ELSE from_ne_wide(wide)

to_ne_u32(self) == transmute_from_bytes(to_ne_bytes(self), 4)

to_be_u32(self) ==
    IF ~big_endian THEN swap_array(to_ne_u32(self)) ELSE to_ne_u32(self)

to_le_u32(self) ==
    IF ~big_endian THEN to_ne_u32(self) ELSE swap_array(to_ne_u32(self))

from_ne_u32(value) == from_ne_bytes(transmute_to_bytes(value))

from_be_u32(value) ==
    IF big_endian THEN from_ne_u32(value) ELSE from_ne_u32(swap_array(value))

from_le_u32(value) ==
    IF big_endian THEN from_ne_u32(swap_array(value)) ELSE from_ne_u32(value)

to_ne_u64(self) == transmute_from_bytes(to_ne_bytes(self), 8)

to_be_u64(self) ==
    IF ~big_endian THEN swap_array(to_ne_u64(self)) ELSE to_ne_u64(self)

to_le_u64(self) ==
    IF ~big_endian THEN to_ne_u64(self) ELSE swap_array(to_ne_u64(self))

from_ne_u64(value) == from_ne_bytes(transmute_to_bytes(value))

from_be_u64(value) ==
    IF big_endian THEN from_ne_u64(value) ELSE from_ne_u64(swap_array(value))

from_le_u64(value) ==
    IF big_endian THEN from_ne_u64(swap_array(value)) ELSE from_ne_u64(value)

(***************************************************************************)
(* Sample inputs: BYTES bytes each, least significant first.               *)
(***************************************************************************)
SampleTable ==
    << Rep(32, 0),                                             \* 0
       << 1 >> \o Rep(31, 0),                                  \* 1
       Rep(32, 255),                                           \* unsigned MAX, signed -1
       Rep(31, 0) \o << 128 >>,                                \* signed MIN
       Rep(31, 255) \o << 127 >>,                              \* signed MAX
       << 86, 52, 18, 0, 0, 0, 0, 0, 188, 154, 120, 0, 0, 0, 0, 0,
          18, 240, 222, 0, 0, 0, 0, 0, 120, 86, 52, 0, 0, 0, 0, 0 >>,
       Rep(16, 0) \o << 1 >> \o Rep(15, 0),                    \* 2^128
       << 7 >> \o Rep(31, 0),                                  \* 7
       Rep(8, 0) \o << 1 >> \o Rep(23, 0),                     \* 2^64
       << 254 >> \o Rep(31, 255),                              \* unsigned MAX - 1, signed -2
       Rep(16, 255) \o Rep(16, 0),                             \* 2^128 - 1
       Rep(4, 0) \o << 3 >> \o Rep(27, 0) >>                   \* 3 * 2^32

Sample(k) ==
    IF k <= Len(SampleTable)
    THEN SampleTable[k]
    ELSE [j \in 1..BYTES |-> (k * 53 + j * j * k + 29 * j) % 256]

Samples == { Sample(k) : k \in 1..NumSamples }

Orders == { "be", "le", "ne" }

(***************************************************************************)
(* The conversions, applied and undone                                     *)
(***************************************************************************)
to_bytes(o, v) ==
    CASE o = "be" -> to_be_bytes(v) [] o = "le" -> to_le_bytes(v) [] OTHER -> to_ne_bytes(v)

from_bytes(o, x) ==
    CASE o = "be" -> from_be_bytes(x) [] o = "le" -> from_le_bytes(x) [] OTHER -> from_ne_bytes(x)

to_limbs(o, v) ==
    CASE o = "be" -> to_be_limbs(v) [] o = "le" -> to_le_limbs(v) [] OTHER -> to_ne_limbs(v)

from_limbs(o, x) ==
    CASE o = "be" -> from_be_limbs(x) [] o = "le" -> from_le_limbs(x) [] OTHER -> from_ne_limbs(x)

to_wide(o, v) ==
    CASE o = "be" -> to_be_wide(v) [] o = "le" -> to_le_wide(v) [] OTHER -> to_ne_wide(v)

from_wide(o, x) ==
    CASE o = "be" -> from_be_wide(x) [] o = "le" -> from_le_wide(x) [] OTHER -> from_ne_wide(x)

to_u32(o, v) ==
    CASE o = "be" -> to_be_u32(v) [] o = "le" -> to_le_u32(v) [] OTHER -> to_ne_u32(v)

from_u32s(o, x) ==
    CASE o = "be" -> from_be_u32(x) [] o = "le" -> from_le_u32(x) [] OTHER -> from_ne_u32(x)

to_u64(o, v) ==
    CASE o = "be" -> to_be_u64(v) [] o = "le" -> to_le_u64(v) [] OTHER -> to_ne_u64(v)

from_u64s(o, x) ==
    CASE o = "be" -> from_be_u64(x) [] o = "le" -> from_le_u64(x) [] OTHER -> from_ne_u64(x)

\* The raw bytes seen as an array of n-byte integers (any array is a valid input).
RawArray(n) == [k \in 1..(BYTES \div n) |-> Chunk(raw, k - 1, n)]

InitConv ==
    /\ limb_bits \in {32, 64}
    /\ big_endian \in BOOLEAN
    /\ is_signed = FALSE
    /\ overflow_checks = FALSE
    /\ a \in { from_le_bytes(s) : s \in Samples }
    /\ b = a
    /\ arg = 0
    /\ raw \in Samples
    /\ op = "init"
    /\ res = [order |-> "none"]

Config == << limb_bits, big_endian, is_signed, overflow_checks >>

RoundTripBytes ==
    /\ op = "init"
    /\ \E o \in Orders :
         res' = [order |-> o, arr |-> to_bytes(o, a), back |-> from_bytes(o, to_bytes(o, a)),
                 x |-> raw, x_back |-> to_bytes(o, from_bytes(o, raw))]
    /\ op' = "bytes"
    /\ UNCHANGED << Config, a, b, arg, raw >>

RoundTripLimbs ==
    /\ op = "init"
    /\ \E o \in Orders :
         res' = [order |-> o, arr |-> to_limbs(o, a), back |-> from_limbs(o, to_limbs(o, a)),
                 x |-> RawArray(LIMB_BYTES),
                 x_back |-> to_limbs(o, from_limbs(o, RawArray(LIMB_BYTES)))]
    /\ op' = "limbs"
    /\ UNCHANGED << Config, a, b, arg, raw >>

RoundTripWide ==
    /\ op = "init"
    /\ \E o \in Orders :
         res' = [order |-> o, arr |-> to_wide(o, a), back |-> from_wide(o, to_wide(o, a)),
                 x |-> RawArray(WIDE_BYTES),
                 x_back |-> to_wide(o, from_wide(o, RawArray(WIDE_BYTES)))]
    /\ op' = "wide"
    /\ UNCHANGED << Config, a, b, arg, raw >>

RoundTripU32 ==
    /\ op = "init"
    /\ \E o \in Orders :
         res' = [order |-> o, arr |-> to_u32(o, a), back |-> from_u32s(o, to_u32(o, a)),
                 x |-> RawArray(4), x_back |-> to_u32(o, from_u32s(o, RawArray(4)))]
    /\ op' = "u32"
    /\ UNCHANGED << Config, a, b, arg, raw >>

RoundTripU64 ==
    /\ op = "init"
    /\ \E o \in Orders :
         res' = [order |-> o, arr |-> to_u64(o, a), back |-> from_u64s(o, to_u64(o, a)),
                 x |-> RawArray(8), x_back |-> to_u64(o, from_u64s(o, RawArray(8)))]
    /\ op' = "u64"
    /\ UNCHANGED << Config, a, b, arg, raw >>

NextConv ==
    \/ RoundTripBytes
    \/ RoundTripLimbs
    \/ RoundTripWide
    \/ RoundTripU32
    \/ RoundTripU64

SpecConv == InitConv /\ [][NextConv]_vars

ConvOps == { "bytes", "limbs", "wide", "u32", "u64" }

\* The number of elements and the width of each element of the array form of a
\* representation.
RepLen(r) ==
    CASE r = "bytes" -> BYTES [] r = "limbs" -> LIMBS [] r = "wide" -> WIDE
      [] r = "u32" -> U32_LEN [] OTHER -> U64_LEN

\* C1: for every value v and every representation R (bytes, limbs, wide, u32,
\* u64, each in big, little and native order), from_R(to_R(v)) = v and
\* to_R(from_R(x)) = x for every array x; the array has the length of R.
C1_RoundTrip ==
    op \in ConvOps =>
        /\ res.back = a
        /\ res.x_back = res.x
        /\ Len(res.arr) = RepLen(op)

\* A value with 32 different-looking bytes went through the big-endian byte view
\* on a little-endian target, and the view is not the native one.
C1_Witness ==
    /\ op = "bytes"
    /\ res.order = "be"
    /\ ~big_endian
    /\ a = from_le_bytes(Sample(6))
    /\ res.arr # to_ne_bytes(a)
    /\ res.back = a

(***************************************************************************)
(* Comparison of native integers                                           *)
(***************************************************************************)
\* Unsigned comparison of two integers of one width, from byte i (1-based, the
\* most significant one looked at) down: -1, 0 or 1.
RECURSIVE ucmp_from(_, _, _)
ucmp_from(x, y, i) ==
    IF i = 0 THEN 0
    ELSE IF x[i] < y[i] THEN -1
    ELSE IF x[i] > y[i] THEN 1
    ELSE ucmp_from(x, y, i - 1)

\* Two's complement: a signed comparison is the unsigned one with the sign bits
\* flipped.
flip_sign(x) == [x EXCEPT ![Len(x)] = (@ + 128) % 256]

\* x < y with both cast to the integer type t ("unsigned" or "signed") of their
\* own width.
prim_lt(t, x, y) ==
    IF t = "signed"
    THEN ucmp_from(flip_sign(x), flip_sign(y), Len(x)) = -1
    ELSE ucmp_from(x, y, Len(x)) = -1

prim_le(t, x, y) == ~prim_lt(t, y, x)

\* The operator token ("<" or "<=") a macro arm is instantiated with.
apply_op(tok, t, x, y) == IF tok = "<" THEN prim_lt(t, x, y) ELSE prim_le(t, x, y)

(***************************************************************************)
(* cmp_define!: ordering                                                   *)
(***************************************************************************)
\* ord::define!(low_type, high_type): the unsigned type compares every wide word
\* unsigned; the signed type compares the most significant one signed.
low_type == "unsigned"

high_type == IF is_signed THEN "signed" ELSE "unsigned"

\* The loop of cmp_define!(@ord); `visited` counts the wide words looked at.
RECURSIVE ord_loop(_, _, _, _, _, _, _)
ord_loop(lhs, rhs, op2, i, is_ord, is_eq, visited) ==
    IF i > 0 /\ ~is_ord /\ is_eq
    THEN LET j == i - 1
             lhs_i == ne_index(lhs, j)
             rhs_i == ne_index(rhs, j)
         IN  ord_loop(lhs, rhs, op2, j, apply_op(op2, low_type, lhs_i, rhs_i),
                      lhs_i = rhs_i, visited + 1)
    ELSE [val |-> is_ord, visited |-> visited]

cmp_ord(self, rhs_, op1, op2) ==
    LET lhs == to_ne_wide(self)
        rhs == to_ne_wide(rhs_)
        i == WIDE - 1
        lhs_0 == ne_index(lhs, i)
        rhs_0 == ne_index(rhs, i)
    IN  ord_loop(lhs, rhs, op2, i, apply_op(op1, high_type, lhs_0, rhs_0), lhs_0 = rhs_0, 1)

\* The loop of cmp_define!(@cmp).
RECURSIVE cmp_loop(_, _, _, _, _, _, _)
cmp_loop(lhs, rhs, i, is_eq, is_lt, is_gt, visited) ==
    IF i > 0 /\ ~is_lt /\ ~is_gt /\ is_eq
    THEN LET j == i - 1
             lhs_i == ne_index(lhs, j)
             rhs_i == ne_index(rhs, j)
         IN  cmp_loop(lhs, rhs, j, lhs_i = rhs_i, prim_lt(low_type, lhs_i, rhs_i),
                      prim_lt(low_type, rhs_i, lhs_i), visited + 1)
    ELSE [val |-> IF is_lt THEN "Less" ELSE IF is_gt THEN "Greater" ELSE "Equal",
          visited |-> visited]

\* The most significant wide word compared as low_type.
cmp_cmp_high_as_low(self, rhs_) ==
    LET lhs == to_ne_wide(self)
        rhs == to_ne_wide(rhs_)
        i == WIDE - 1
        lhs_0 == ne_index(lhs, i)
        rhs_0 == ne_index(rhs, i)
    IN  cmp_loop(lhs, rhs, i, lhs_0 = rhs_0, prim_lt(low_type, lhs_0, rhs_0),
                 prim_lt(low_type, rhs_0, lhs_0), 1)

cmp_cmp(self, rhs_) ==
    LET lhs == to_ne_wide(self)
        rhs == to_ne_wide(rhs_)
        i == WIDE - 1
        lhs_0 == ne_index(lhs, i)
        rhs_0 == ne_index(rhs, i)
    IN  cmp_loop(lhs, rhs, i, lhs_0 = rhs_0, prim_lt(high_type, lhs_0, rhs_0),
                 prim_lt(high_type, rhs_0, lhs_0), 1)

\* eq_const of the arm short_circuit => false: no exit before i = WIDE.
RECURSIVE eq_loop(_, _, _, _)
eq_loop(lhs, rhs, i, is_eq) ==
    IF i < WIDE
    THEN eq_loop(lhs, rhs, i + 1, is_eq /\ (At(lhs, i) = At(rhs, i)))
    ELSE [val |-> is_eq, visited |-> i]

\* A short-circuiting loop that goes on while the words differ.
RECURSIVE eq_loop_sc_inverted(_, _, _, _)
eq_loop_sc_inverted(lhs, rhs, i, is_eq) ==
    IF i < WIDE /\ ~is_eq
    THEN eq_loop_sc_inverted(lhs, rhs, i + 1, is_eq /\ (At(lhs, i) = At(rhs, i)))
    ELSE [val |-> is_eq, visited |-> i]

\* eq_const of the arm short_circuit => true.
RECURSIVE eq_loop_sc(_, _, _, _)
eq_loop_sc(lhs, rhs, i, is_eq) ==
    IF i < WIDE /\ is_eq
    THEN eq_loop_sc(lhs, rhs, i + 1, is_eq /\ (At(lhs, i) = At(rhs, i)))
    ELSE [val |-> is_eq, visited |-> i]

\* The two arms of cmp_define!, selected by short_circuit; each operation
\* returns [val, visited].
eq_arm(short_circuit, self, rhs) ==
    IF short_circuit
    THEN eq_loop_sc(to_ne_wide(self), to_ne_wide(rhs), 0, TRUE)
    ELSE eq_loop(to_ne_wide(self), to_ne_wide(rhs), 0, TRUE)

lt_arm(short_circuit, self, rhs) == cmp_ord(self, rhs, "<", "<")

le_arm(short_circuit, self, rhs) == cmp_ord(self, rhs, "<", "<=")

gt_arm(short_circuit, self, rhs) ==
    LET r == le_arm(short_circuit, self, rhs) IN [r EXCEPT !.val = ~@]

ge_arm(short_circuit, self, rhs) ==
    LET r == lt_arm(short_circuit, self, rhs) IN [r EXCEPT !.val = ~@]

cmp_arm(short_circuit, self, rhs) == cmp_cmp(self, rhs)

\* u256 is instantiated with short_circuit => false.
SHORT_CIRCUIT == FALSE

eq_const(self, rhs) == eq_arm(SHORT_CIRCUIT, self, rhs).val

lt_const(self, rhs) == lt_arm(SHORT_CIRCUIT, self, rhs).val

le_const(self, rhs) == le_arm(SHORT_CIRCUIT, self, rhs).val

gt_const(self, rhs) == gt_arm(SHORT_CIRCUIT, self, rhs).val

ge_const(self, rhs) == ge_arm(SHORT_CIRCUIT, self, rhs).val

cmp_const(self, rhs) == cmp_arm(SHORT_CIRCUIT, self, rhs).val

SampleValues == { from_le_bytes(s) : s \in Samples }

InitCmp ==
    /\ limb_bits \in {32, 64}
    /\ big_endian \in BOOLEAN
    /\ is_signed \in BOOLEAN
    /\ overflow_checks = FALSE
    /\ a \in SampleValues
    /\ b \in SampleValues
    /\ arg = 0
    /\ raw = << >>
    /\ op = "init"
    /\ res = [nsc |-> [val |-> FALSE, visited |-> 0], sc |-> [val |-> FALSE, visited |-> 0]]

\* Each action applies one operation, in both arms of the macro.
EqConst ==
    /\ op = "init"
    /\ op' = "eq"
    /\ res' = [nsc |-> eq_arm(FALSE, a, b), sc |-> eq_arm(TRUE, a, b)]
    /\ UNCHANGED << Config, a, b, arg, raw >>

LtConst ==
    /\ op = "init"
    /\ op' = "lt"
    /\ res' = [nsc |-> lt_arm(FALSE, a, b), sc |-> lt_arm(TRUE, a, b)]
    /\ UNCHANGED << Config, a, b, arg, raw >>

LeConst ==
    /\ op = "init"
    /\ op' = "le"
    /\ res' = [nsc |-> le_arm(FALSE, a, b), sc |-> le_arm(TRUE, a, b)]
    /\ UNCHANGED << Config, a, b, arg, raw >>

GtConst ==
    /\ op = "init"
    /\ op' = "gt"
    /\ res' = [nsc |-> gt_arm(FALSE, a, b), sc |-> gt_arm(TRUE, a, b)]
    /\ UNCHANGED << Config, a, b, arg, raw >>

GeConst ==
    /\ op = "init"
    /\ op' = "ge"
    /\ res' = [nsc |-> ge_arm(FALSE, a, b), sc |-> ge_arm(TRUE, a, b)]
    /\ UNCHANGED << Config, a, b, arg, raw >>

CmpConst ==
    /\ op = "init"
    /\ op' = "cmp"
    /\ res' = [nsc |-> cmp_arm(FALSE, a, b), sc |-> cmp_arm(TRUE, a, b)]
    /\ UNCHANGED << Config, a, b, arg, raw >>

NextCmp ==
    \/ EqConst
    \/ LtConst
    \/ LeConst
    \/ GtConst
    \/ GeConst
    \/ CmpConst

SpecCmp == InitCmp /\ [][NextCmp]_vars

CmpOps == { "eq", "lt", "le", "gt", "ge", "cmp" }

\* The number a value stands for, by its bytes (least significant first): x is
\* below y when, at the most significant byte where they differ, x's is smaller;
\* for the signed type a negative value is below every non-negative one.
BytesBelow(x, y) ==
    \E i \in 1..BYTES : x[i] < y[i] /\ \A j \in (i + 1)..BYTES : x[j] = y[j]

IsNegative(x) == x[BYTES] >= 128

NumBelow(v, w) ==
    LET x == to_le_bytes(v)
        y == to_le_bytes(w)
    IN  IF is_signed /\ IsNegative(x) # IsNegative(y)
        THEN IsNegative(x)
        ELSE BytesBelow(x, y)

NumOrder(v, w) ==
    IF NumBelow(v, w) THEN "Less" ELSE IF NumBelow(w, v) THEN "Greater" ELSE "Equal"

\* C2: cmp_const(a, b) is Less, Equal or Greater exactly according to the
\* numeric order of a and b (two's complement for the signed type), and it is
\* a total order: total and antisymmetric (cmp(b, a) is the reverse of
\* cmp(a, b), Equal only for a = b) and transitive.
C2_CmpNumericTotalOrder ==
    op = "cmp" =>
        /\ res.nsc.val = NumOrder(a, b)
        /\ res.nsc.val \in { "Less", "Equal", "Greater" }
        /\ (res.nsc.val = "Equal") = (a = b)
        /\ (res.nsc.val = "Less") = (cmp_const(b, a) = "Greater")
        /\ \A w \in SampleValues :
             /\ (res.nsc.val = "Less" /\ cmp_const(b, w) = "Less") => cmp_const(a, w) = "Less"
             /\ (res.nsc.val = "Equal" /\ cmp_const(b, w) = "Equal") => cmp_const(a, w) = "Equal"

\* The signed type ordered a negative value below a non-negative one whose bytes
\* are smaller, after looking below the most significant wide word of a pair
\* that agrees there.
C2_Witness ==
    /\ op = "cmp"
    /\ is_signed
    /\ a = from_le_bytes(Sample(3))
    /\ b = from_le_bytes(Sample(10))
    /\ res.nsc.val = "Greater"
    /\ res.nsc.visited = WIDE
    /\ cmp_const(a, from_le_bytes(Sample(1))) = "Less"

\* What each relational form has to return, given the three-way result.
Relational(o, ordering) ==
    CASE o = "lt" -> ordering = "Less"
      [] o = "le" -> ordering # "Greater"
      [] o = "gt" -> ordering = "Greater"
      [] o = "ge" -> ordering # "Less"
      [] OTHER    -> ordering = "Equal"

\* C3: for all a, b and for every wide-word count (WIDE = 2 with 64-bit limbs,
\* WIDE = 4 with 32-bit limbs), lt_const, le_const, gt_const, ge_const and
\* eq_const agree with cmp_const: lt <=> Less, le <=> not Greater,
\* gt <=> Greater, ge <=> not Less, eq <=> Equal.
C3_RelationalAgreeWithCmp ==
    op \in { "lt", "le", "gt", "ge", "eq" } =>
        res.nsc.val = Relational(op, cmp_const(a, b))

\* C4: the short-circuiting and the non-short-circuiting implementations of
\* eq_const, lt_const, le_const, gt_const, ge_const and cmp_const return the
\* same result for every pair of inputs.
C4_ArmsAgree ==
    op \in CmpOps => res.sc.val = res.nsc.val

\* eq_const on two different values that agree in the first wide word in
\* memory: the short-circuiting arm stopped early, the other one did not, and
\* both said "not equal".
C4_Witness ==
    /\ op = "eq"
    /\ a # b
    /\ At(to_ne_wide(a), 0) = At(to_ne_wide(b), 0)
    /\ res.sc.visited < res.nsc.visited
    /\ res.sc.val = FALSE
    /\ res.nsc.val = FALSE

\* C5: in the non-short-circuiting configuration (the one u256 instantiates),
\* eq_const, lt_const, le_const and cmp_const visit every wide word of the
\* operands for every input: the number of words visited is WIDE whatever the
\* operand values.
C5_VisitsEveryWideWord ==
    op \in { "eq", "lt", "le", "cmp" } => res.nsc.visited = WIDE

(***************************************************************************)
(* Arithmetic of native integers (bytes, least significant first)          *)
(***************************************************************************)
\* `as` casts: to a narrower type truncate, to a wider one zero-extend an
\* unsigned source and sign-extend a signed one.
prim_is_negative(x) == x[Len(x)] >= 128

cast_u(x, w) == IF w <= Len(x) THEN SubSeq(x, 1, w) ELSE x \o Rep(w - Len(x), 0)

cast_i(x, w) ==
    IF w <= Len(x) THEN SubSeq(x, 1, w)
    ELSE x \o Rep(w - Len(x), IF prim_is_negative(x) THEN 255 ELSE 0)

\* value >> bits, for the whole-byte shifts of the casts (32, 64, 96).
prim_shr(x, bits) ==
    LET k == bits \div 8 IN SubSeq(x, k + 1, Len(x)) \o Rep(k, 0)

is_zero(x) == \A i \in 1..Len(x) : x[i] = 0

\* x + y + carry from byte i on: [val, carry].
RECURSIVE bytes_add(_, _, _, _)
bytes_add(x, y, i, carry) ==
    IF i > Len(x) THEN [val |-> << >>, carry |-> carry]
    ELSE LET s == x[i] + y[i] + carry
             rest == bytes_add(x, y, i + 1, s \div 256)
         IN  [val |-> << s % 256 >> \o rest.val, carry |-> rest.carry]

prim_carrying_add(x, y, carry) == bytes_add(x, y, 1, carry)

\* x - y - borrow from byte i on: [val, carry], carry being the borrow out.
RECURSIVE bytes_sub(_, _, _, _)
bytes_sub(x, y, i, borrow) ==
    IF i > Len(x) THEN [val |-> << >>, carry |-> borrow]
    ELSE LET d == x[i] - y[i] - borrow
             rest == bytes_sub(x, y, i + 1, IF d < 0 THEN 1 ELSE 0)
         IN  [val |-> << (d + 256) % 256 >> \o rest.val, carry |-> rest.carry]

prim_borrowing_sub(x, y, borrow) == bytes_sub(x, y, 1, borrow)

\* x * d + carry for one byte d, from byte i on: one byte more than x.
RECURSIVE mul_small(_, _, _, _)
mul_small(x, d, i, carry) ==
    IF i > Len(x) THEN << carry >>
    ELSE LET t == x[i] * d + carry
         IN  << t % 256 >> \o mul_small(x, d, i + 1, t \div 256)

RECURSIVE bytes_mul_from(_, _, _, _)
bytes_mul_from(x, y, j, acc) ==
    IF j > Len(y) THEN acc
    ELSE LET row == Rep(j - 1, 0) \o mul_small(x, y[j], 1, 0) \o Rep(Len(y) - j, 0)
         IN  bytes_mul_from(x, y, j + 1, bytes_add(acc, row, 1, 0).val)

\* The widening multiplication x * y: Len(x) + Len(y) bytes.
prim_widening_mul(x, y) == bytes_mul_from(x, y, 1, Rep(Len(x) + Len(y), 0))

\* Division works on digits of three bytes, least significant first.
Radix == 2 ^ 24

to_digits(x, n) ==
    LET byte(j) == IF j <= Len(x) THEN x[j] ELSE 0
    IN  [i \in 1..n |-> byte(3 * i - 2) + 256 * byte(3 * i - 1) + 65536 * byte(3 * i)]

from_digits(dg, m) ==
    [j \in 1..m |-> (dg[(j + 2) \div 3] \div (256 ^ ((j - 1) % 3))) % 256]

\* 2 * r + carry from digit i on, the top bit dropped.
RECURSIVE shl1(_, _, _)
shl1(r, i, carry) ==
    IF i > Len(r) THEN << >>
    ELSE << ((2 * r[i]) % Radix) + carry >> \o shl1(r, i + 1, r[i] \div (Radix \div 2))

RECURSIVE digits_sub(_, _, _, _)
digits_sub(x, y, i, borrow) ==
    IF i > Len(x) THEN << >>
    ELSE LET d == x[i] - y[i] - borrow
         IN  << (d + Radix) % Radix >> \o digits_sub(x, y, i + 1, IF d < 0 THEN 1 ELSE 0)

\* One step of shift-and-subtract division: bit k of the dividend x enters
\* the remainder, and bit k of the quotient is set when the divisor fits.
div_step(st, x, d, k) ==
    LET at == (k \div 24) + 1
        r1 == shl1(st.r, 1, (x[at] \div (2 ^ (k % 24))) % 2)
    IN  IF ucmp_from(r1, d, Len(d)) >= 0
        THEN [q |-> [st.q EXCEPT ![at] = @ + 2 ^ (k % 24)], r |-> digits_sub(r1, d, 1, 0)]
        ELSE [q |-> st.q, r |-> r1]

\* The steps for bits hi - 1 down to lo of the dividend.  The remainder stays
\* below the divisor after every step; testing it makes TLC evaluate the upper
\* half before it descends into the lower one, which keeps its stack shallow.
RECURSIVE div_range(_, _, _, _, _)
div_range(st, x, d, lo, hi) ==
    IF hi - lo = 1 THEN div_step(st, x, d, lo)
    ELSE LET mid == (lo + hi) \div 2
             upper == div_range(st, x, d, mid, hi)
         IN  IF ucmp_from(upper.r, d, Len(d)) < 0
             THEN div_range(upper, x, d, lo, mid)
             ELSE upper

\* The number of digits of x up to its most significant nonzero one.
RECURSIVE significant(_, _)
significant(x, i) ==
    IF i = 0 THEN 0 ELSE IF x[i] # 0 THEN i ELSE significant(x, i - 1)

\* x / d and x % d for d # 0: [q, r], q as wide as x and r as wide as d.  The
\* most significant digits of the dividend, one fewer than the divisor has,
\* are below the divisor: they enter the remainder at once, and the steps
\* take the bits under them.
prim_div_rem(x, d) ==
    LET n == (Len(x) \div 3) + 1
        xs == to_digits(x, n)
        ds == to_digits(d, n)
        sx == significant(xs, n)
        sd == significant(ds, n)
        skip == IF sx < sd THEN sx ELSE sd - 1
        st == [q |-> Rep(n, 0),
               r |-> SubSeq(xs, sx - skip + 1, sx) \o Rep(n - skip, 0)]
        s == IF sx = skip THEN st ELSE div_range(st, xs, ds, 0, 24 * (sx - skip))
    IN  [q |-> from_digits(s.q, Len(x)), r |-> from_digits(s.r, Len(d))]

(***************************************************************************)
(* Limb constants, MIN and MAX, casts_define!                              *)
(***************************************************************************)
ULimb_MIN == Rep(LIMB_BYTES, 0)

ULimb_MAX == Rep(LIMB_BYTES, 255)

ILimb_MIN == [ULimb_MIN EXCEPT ![LIMB_BYTES] = 128]

ILimb_MAX == [ULimb_MAX EXCEPT ![LIMB_BYTES] = 127]

min_value ==
    IF is_signed
    THEN from_ne_limbs(ne_index_set(Rep(LIMBS, ULimb_MIN), LIMBS - 1, ILimb_MIN))
    ELSE from_ne_limbs(Rep(LIMBS, ULimb_MIN))

max_value ==
    IF is_signed
    THEN from_ne_limbs(ne_index_set(Rep(LIMBS, ULimb_MAX), LIMBS - 1, ILimb_MAX))
    ELSE from_ne_limbs(Rep(LIMBS, ULimb_MAX))

\* Native integers of the casts' argument types, from a small number.
u8(k) == << k >>

i8(k) == << (k + 256) % 256 >>

from_u32(value) ==
    from_ne_limbs(ne_index_set(Rep(LIMBS, ULimb_MIN), 0, cast_u(value, LIMB_BYTES)))

from_u8(value) == from_u32(cast_u(value, 4))

from_u64(value) ==
    IF limb_bits = 32
    THEN from_ne_limbs(ne_index_set(
             ne_index_set(Rep(LIMBS, ULimb_MIN), 0, cast_u(value, LIMB_BYTES)),
             1, cast_u(prim_shr(value, 32), LIMB_BYTES)))
    ELSE from_ne_limbs(ne_index_set(Rep(LIMBS, ULimb_MIN), 0, cast_u(value, LIMB_BYTES)))

from_ulimb(value) ==
    IF limb_bits = 32 THEN from_u32(cast_u(value, 4)) ELSE from_u64(cast_u(value, 8))

\* ULimb::MIN.wrapping_sub(value.is_negative() as ULimb): every bit the sign.
sign_bit(value) ==
    prim_borrowing_sub(ULimb_MIN,
                       cast_u(u8(IF prim_is_negative(value) THEN 1 ELSE 0), LIMB_BYTES),
                       0).val

\* limbs = [sign_bit; LIMBS] with limbs[0] = value as ULimb.
sign_extended(value) ==
    from_ne_limbs(ne_index_set(Rep(LIMBS, sign_bit(value)), 0, cast_i(value, LIMB_BYTES)))

RECURSIVE from_i64(_)
from_i32(value) ==
    IF limb_bits = 32 THEN sign_extended(value) ELSE from_i64(cast_i(value, 8))

from_i64(value) ==
    IF limb_bits = 32 THEN from_i32(cast_i(value, 4)) ELSE sign_extended(value)

from_i8(value) == from_i32(cast_i(value, 4))

as_ulimb(self) == cast_u(ne_index(self.limbs, 0), LIMB_BYTES)

(***************************************************************************)
(* Addition, subtraction and multiplication, limb by limb                  *)
(***************************************************************************)
is_negative(self) == is_signed /\ prim_is_negative(ne_index(self.limbs, LIMBS - 1))

\* add_limbs without the carry between limbs.
RECURSIVE add_limbs_no_carry(_, _, _, _)
add_limbs_no_carry(lhs, rhs, i, carry) ==
    IF i = LIMBS THEN [val |-> << >>, carry |-> carry]
    ELSE LET s == prim_carrying_add(ne_index(lhs, i), ne_index(rhs, i), 0)
             rest == add_limbs_no_carry(lhs, rhs, i + 1, s.carry)
         IN  [val |-> << s.val >> \o rest.val, carry |-> rest.carry]

\* lhs + rhs + carry from limb i on: [val, carry], val least significant
\* limb first.
RECURSIVE add_limbs(_, _, _, _)
add_limbs(lhs, rhs, i, carry) ==
    IF i = LIMBS THEN [val |-> << >>, carry |-> carry]
    ELSE LET s == prim_carrying_add(ne_index(lhs, i), ne_index(rhs, i), carry)
             rest == add_limbs(lhs, rhs, i + 1, s.carry)
         IN  [val |-> << s.val >> \o rest.val, carry |-> rest.carry]

\* sub_limbs without the borrow between limbs.
RECURSIVE sub_limbs_no_borrow(_, _, _, _)
sub_limbs_no_borrow(lhs, rhs, i, borrow) ==
    IF i = LIMBS THEN [val |-> << >>, carry |-> borrow]
    ELSE LET s == prim_borrowing_sub(ne_index(lhs, i), ne_index(rhs, i), 0)
             rest == sub_limbs_no_borrow(lhs, rhs, i + 1, s.carry)
         IN  [val |-> << s.val >> \o rest.val, carry |-> rest.carry]

RECURSIVE sub_limbs(_, _, _, _)
sub_limbs(lhs, rhs, i, borrow) ==
    IF i = LIMBS THEN [val |-> << >>, carry |-> borrow]
    ELSE LET s == prim_borrowing_sub(ne_index(lhs, i), ne_index(rhs, i), borrow)
             rest == sub_limbs(lhs, rhs, i + 1, s.carry)
         IN  [val |-> << s.val >> \o rest.val, carry |-> rest.carry]

\* (value, overflowed): unsigned, the carry out of the top limb; signed, the
\* operands have one sign and the result the other.
overflowing_add(self, rhs) ==
    LET s == add_limbs(self.limbs, rhs.limbs, 0, 0)
        v == from_le_limbs(s.val)
    IN  << v,
           IF is_signed
           THEN is_negative(self) = is_negative(rhs) /\ is_negative(v) # is_negative(self)
           ELSE s.carry = 1 >>

wrapping_add(self, rhs) == from_le_limbs(add_limbs(self.limbs, rhs.limbs, 0, 0).val)

overflowing_sub(self, rhs) ==
    LET s == sub_limbs(self.limbs, rhs.limbs, 0, 0)
        v == from_le_limbs(s.val)
    IN  << v,
           IF is_signed
           THEN is_negative(self) # is_negative(rhs) /\ is_negative(v) # is_negative(self)
           ELSE s.carry = 1 >>

wrapping_sub(self, rhs) == from_le_limbs(sub_limbs(self.limbs, rhs.limbs, 0, 0).val)

wrapping_neg(self) == wrapping_sub(from_u8(u8(0)), self)

\* x * y + r + carry as a wide word: the widening multiply-accumulate of the
\* schoolbook algorithm.
wide_mac(x, y, r, carry) ==
    LET p == prim_widening_mul(x, y)
        s == bytes_add(p, cast_u(r, WIDE_BYTES), 1, 0).val
    IN  bytes_add(s, cast_u(carry, WIDE_BYTES), 1, 0).val

\* Row i of the schoolbook product: x[i] times every limb of y from limb j on,
\* added to the limbs of r at positions i + j .. i + LIMBS - 1; the last limb
\* is the carry out of the row.
RECURSIVE mul_row(_, _, _, _, _, _)
mul_row(xi, y, r, i, j, carry) ==
    IF j = LIMBS THEN << carry >>
    ELSE LET t == wide_mac(xi, At(y, j), At(r, i + j), carry)
         IN  << SubSeq(t, 1, LIMB_BYTES) >>
                 \o mul_row(xi, y, r, i, j + 1, SubSeq(t, LIMB_BYTES + 1, WIDE_BYTES))

RECURSIVE mul_rows(_, _, _, _)
mul_rows(x, y, r, i) ==
    IF i = LIMBS THEN r
    ELSE LET row == SubSeq(r, 1, i) \o mul_row(At(x, i), y, r, i, 0, ULimb_MIN)
                        \o SubSeq(r, i + LIMBS + 2, 2 * LIMBS)
         IN  mul_rows(x, y, row, i + 1)

\* The full product: 2 * LIMBS limbs, least significant first.
widening_mul(self, rhs) ==
    mul_rows(to_le_limbs(self), to_le_limbs(rhs), Rep(2 * LIMBS, ULimb_MIN), 0)

wrapping_mul(self, rhs) == from_le_limbs(SubSeq(widening_mul(self, rhs), 1, LIMBS))

(***************************************************************************)
(* Addition and subtraction, applied                                       *)
(***************************************************************************)
InitAdd ==
    /\ limb_bits \in {32, 64}
    /\ big_endian \in BOOLEAN
    /\ is_signed \in BOOLEAN
    /\ overflow_checks = FALSE
    /\ a \in SampleValues
    /\ b \in SampleValues
    /\ arg = 0
    /\ raw = << >>
    /\ op = "init"
    /\ res = << >>

WrappingAdd ==
    /\ op = "init"
    /\ op' = "wrapping_add"
    /\ res' = wrapping_add(a, b)
    /\ UNCHANGED << Config, a, b, arg, raw >>

OverflowingAdd ==
    /\ op = "init"
    /\ op' = "overflowing_add"
    /\ res' = overflowing_add(a, b)
    /\ UNCHANGED << Config, a, b, arg, raw >>

WrappingSub ==
    /\ op = "init"
    /\ op' = "wrapping_sub"
    /\ res' = wrapping_sub(a, b)
    /\ UNCHANGED << Config, a, b, arg, raw >>

OverflowingSub ==
    /\ op = "init"
    /\ op' = "overflowing_sub"
    /\ res' = overflowing_sub(a, b)
    /\ UNCHANGED << Config, a, b, arg, raw >>

NextAdd ==
    \/ WrappingAdd
    \/ OverflowingAdd
    \/ WrappingSub
    \/ OverflowingSub

SpecAdd == InitAdd /\ [][NextAdd]_vars

\* The number a byte string stands for, modulo p: Horner's rule from byte i on.
RECURSIVE Residue(_, _, _)
Residue(x, i, p) ==
    IF i > Len(x) THEN 0 ELSE (x[i] + 256 * Residue(x, i + 1, p)) % p

\* Pairwise coprime moduli whose product exceeds 2^257: two numbers below
\* 2^257 are equal exactly when they agree modulo every one of them.
Moduli ==
    { 32749, 32719, 32717, 32713, 32707, 32693, 32687, 32653, 32647,
      32633, 32621, 32611, 32609, 32603, 32587, 32579, 32573, 32569 }

\* x + y = s + f * 2^BITS as numbers, f being 0 or 1.
SumIs(x, y, s, f) ==
    \A p \in Moduli :
        (Residue(x, 1, p) + Residue(y, 1, p)) % p
            = (Residue(s, 1, p) + f * Residue(Rep(BYTES, 0) \o << 1 >>, 1, p)) % p

u64_MAX == Rep(8, 255)

\* C6: for unsigned a and b, overflowing_add(a, b) is ((a + b) mod 2^BITS,
\* a + b >= 2^BITS) and wrapping_add(a, b) is its first component; MAX
\* wrapping_add MAX has the little-endian u64 limbs [MAX - 1, MAX, MAX, MAX],
\* and from_u8(1).overflowing_add(MAX) is (0, true).
C6_UnsignedAdd ==
    ~is_signed =>
        /\ op = "overflowing_add" =>
              /\ SumIs(to_le_bytes(a), to_le_bytes(b), to_le_bytes(res[1]),
                       IF res[2] THEN 1 ELSE 0)
              /\ res[2] \in BOOLEAN
              /\ wrapping_add(a, b) = res[1]
              /\ (a = from_u8(u8(1)) /\ b = max_value) => res = << from_u8(u8(0)), TRUE >>
        /\ op = "wrapping_add" =>
              /\ res = overflowing_add(a, b)[1]
              /\ (a = max_value /\ b = max_value) =>
                     res = from_le_u64(<< [u64_MAX EXCEPT ![1] = 254], u64_MAX, u64_MAX, u64_MAX >>)

\* An unsigned addition carried out of the top limb: 1 + MAX wrapped to 0.
C6_Witness ==
    /\ ~is_signed
    /\ op = "overflowing_add"
    /\ a = from_u8(u8(1))
    /\ b = max_value
    /\ res[2]
    /\ res[1] = from_u8(u8(0))

\* C7: for every a, signed or unsigned, 0, MIN and MAX included,
\* a.wrapping_add(from(0).wrapping_sub(a)) is 0.  The subtraction is the one
\* the state holds: 0 - b, for the states whose minuend is 0.
C7_AdditiveInverse ==
    (op = "wrapping_sub" /\ a = from_u8(u8(0))) =>
        wrapping_add(b, res) = from_u8(u8(0))

\* The inverse of the signed MIN is MIN itself, and adding them wraps to 0.
C7_Witness ==
    /\ op = "wrapping_sub"
    /\ is_signed
    /\ a = from_u8(u8(0))
    /\ b = min_value
    /\ res = min_value
    /\ wrapping_add(b, res) = from_u8(u8(0))

(***************************************************************************)
(* Division and remainder                                                  *)
(***************************************************************************)
\* How a call ends: tag is "Ok" (a value returned), "Some" or "None" (an
\* Option returned) or "Panic"; val is the value, if any; divided tells
\* whether the wrapping division was invoked on the way.
Panic(divided) == [tag |-> "Panic", val |-> << >>, divided |-> divided]

None == [tag |-> "None", val |-> << >>, divided |-> FALSE]

\* Some(e) for a call e: a panic inside e is the panic of the whole.
Some(w) == IF w.tag = "Panic" THEN w ELSE [w EXCEPT !.tag = "Some"]

\* The value v in the place of the one a call returned.
with_val(w, v) == IF w.tag \in {"Ok", "Some"} THEN [w EXCEPT !.val = v] ELSE w

\* .0 (k = 1) or .1 (k = 2) of the pair a call returned.
proj(w, k) == IF w.tag \in {"Ok", "Some"} THEN [w EXCEPT !.val = @[k]] ELSE w

\* match e { Some(v) => v, _ => panic!("attempt to divide with overflow") }
unwrap_or_panic(w) ==
    IF w.tag = "Some" THEN [w EXCEPT !.tag = "Ok"] ELSE Panic(w.divided)

unsigned_abs(self) == IF is_negative(self) THEN wrapping_neg(self) ELSE self

is_div_overflow(self, n) ==
    is_signed /\ self = min_value /\ n = from_i8(i8(-1))

is_div_none(self, n) == n = from_u8(u8(0)) \/ is_div_overflow(self, n)

\* Truncating division on the magnitudes; the quotient is negative when the
\* signs differ and the remainder has the sign of the dividend.  MIN / -1
\* wraps to (MIN, 0).  A zero divisor panics.
wrapping_div_rem(self, n) ==
    IF n = from_u8(u8(0)) THEN Panic(TRUE)
    ELSE LET m == prim_div_rem(to_le_bytes(unsigned_abs(self)),
                               to_le_bytes(unsigned_abs(n)))
             q == from_le_bytes(m.q)
             r == from_le_bytes(m.r)
         IN  [tag |-> "Ok",
              val |-> << IF is_negative(self) # is_negative(n) THEN wrapping_neg(q) ELSE q,
                         IF is_negative(self) THEN wrapping_neg(r) ELSE r >>,
              divided |-> TRUE]

wrapping_div(self, rhs) == proj(wrapping_div_rem(self, rhs), 1)

wrapping_rem(self, rhs) == proj(wrapping_div_rem(self, rhs), 2)

\* The Euclidean forms move a negative remainder up by |rhs| and the quotient
\* with it.
wrapping_div_euclid(self, rhs) ==
    LET w == wrapping_div_rem(self, rhs)
        one == from_u8(u8(1))
    IN  with_val(w, IF ~is_negative(w.val[2]) THEN w.val[1]
                    ELSE IF is_negative(rhs) THEN wrapping_add(w.val[1], one)
                    ELSE wrapping_sub(w.val[1], one))

wrapping_rem_euclid(self, rhs) ==
    LET w == wrapping_div_rem(self, rhs)
    IN  with_val(w, IF ~is_negative(w.val[2]) THEN w.val[2]
                    ELSE IF is_negative(rhs) THEN wrapping_sub(w.val[2], rhs)
                    ELSE wrapping_add(w.val[2], rhs))

checked_div_rem(self, n) ==
    IF is_div_none(self, n) THEN None ELSE Some(wrapping_div_rem(self, n))

\* div_rem with the quotient and the remainder exchanged when overflow checks
\* are on.
div_rem_swapped(self, n) ==
    LET w == unwrap_or_panic(checked_div_rem(self, n))
    IN  IF ~overflow_checks
        THEN wrapping_div_rem(self, n)
        ELSE with_val(w, << w.val[2], w.val[1] >>)

div_rem(self, n) ==
    IF ~overflow_checks
    THEN wrapping_div_rem(self, n)
    ELSE unwrap_or_panic(checked_div_rem(self, n))

\* overflowing_div_rem that never raises the overflow flag.
overflowing_div_rem_unflagged(self, n) ==
    LET w == wrapping_div_rem(self, n)
    IN  IF is_div_overflow(self, n)
        THEN [tag |-> "Ok", val |-> << << self, from_u8(u8(0)) >>, FALSE >>, divided |-> FALSE]
        ELSE with_val(w, << w.val, FALSE >>)

overflowing_div_rem(self, n) ==
    LET w == wrapping_div_rem(self, n)
    IN  IF is_div_overflow(self, n)
        THEN [tag |-> "Ok", val |-> << << self, from_u8(u8(0)) >>, TRUE >>, divided |-> FALSE]
        ELSE with_val(w, << w.val, FALSE >>)

checked_div(self, rhs) ==
    IF is_div_none(self, rhs) THEN None ELSE Some(wrapping_div(self, rhs))

\* checked_rem refusing a zero divisor only.
checked_rem_zero_only(self, rhs) ==
    IF rhs = from_u8(u8(0)) THEN None ELSE Some(wrapping_rem(self, rhs))

checked_rem(self, rhs) ==
    IF is_div_none(self, rhs) THEN None ELSE Some(wrapping_rem(self, rhs))

checked_div_euclid(self, rhs) ==
    IF is_div_none(self, rhs) THEN None ELSE Some(wrapping_div_euclid(self, rhs))

checked_rem_euclid(self, rhs) ==
    IF is_div_none(self, rhs) THEN None ELSE Some(wrapping_rem_euclid(self, rhs))

\* impl Div and impl Rem: the / and % operators.
div(self, rhs) ==
    IF ~overflow_checks
    THEN wrapping_div(self, rhs)
    ELSE unwrap_or_panic(checked_div(self, rhs))

rem(self, rhs) ==
    IF ~overflow_checks
    THEN wrapping_rem(self, rhs)
    ELSE unwrap_or_panic(checked_rem(self, rhs))

\* Division by one limb, from limb i (the most significant one left) down: the
\* running remainder r and the limb make a wide word that n divides.
RECURSIVE div_limbs(_, _, _, _)
div_limbs(x, n, i, r) ==
    IF i < 0 THEN [q |-> << >>, r |-> r]
    ELSE LET d == prim_div_rem(At(x, i) \o r, cast_u(n, WIDE_BYTES))
             rest == div_limbs(x, n, i - 1, cast_u(d.r, LIMB_BYTES))
         IN  [q |-> rest.q \o << cast_u(d.q, LIMB_BYTES) >>, r |-> rest.r]

\* (quotient, remainder limb) on the magnitude, the quotient negative for a
\* negative dividend.  A zero divisor panics.
wrapping_div_rem_ulimb(self, n) ==
    IF is_zero(n) THEN Panic(TRUE)
    ELSE LET m == div_limbs(to_le_limbs(unsigned_abs(self)), n, LIMBS - 1, ULimb_MIN)
             q == from_le_limbs(m.q)
         IN  [tag |-> "Ok",
              val |-> << IF is_negative(self) THEN wrapping_neg(q) ELSE q, m.r >>,
              divided |-> TRUE]

\* checked_div_rem_ulimb without the test for a zero divisor.
checked_div_rem_ulimb_untested(self, n) == Some(wrapping_div_rem_ulimb(self, n))

checked_div_rem_ulimb(self, n) ==
    IF is_zero(n) THEN None ELSE Some(wrapping_div_rem_ulimb(self, n))

\* Some(self.checked_div_rem_ulimb(n)?.0) and Some(...?.1)
checked_div_ulimb(self, n) == proj(checked_div_rem_ulimb(self, n), 1)

checked_rem_ulimb(self, n) == proj(checked_div_rem_ulimb(self, n), 2)

div_rem_ulimb(self, n) ==
    IF ~overflow_checks
    THEN wrapping_div_rem_ulimb(self, n)
    ELSE unwrap_or_panic(checked_div_rem_ulimb(self, n))

(***************************************************************************)
(* Division, applied                                                       *)
(***************************************************************************)
NumDividends == 6

NumDivisors == 6

\* The dividends and the divisors: 0, 1, -1 (the unsigned MAX), the signed MIN
\* and MAX and the samples after them.
Dividends == { from_le_bytes(Sample(k)) : k \in 1..NumDividends }

Divisors == { from_le_bytes(Sample(k)) : k \in 1..NumDivisors }

InitDiv ==
    /\ limb_bits \in {32, 64}
    /\ big_endian \in BOOLEAN
    /\ is_signed \in BOOLEAN
    /\ overflow_checks \in BOOLEAN
    /\ a \in Dividends
    /\ b \in Divisors
    /\ arg = as_ulimb(b)
    /\ raw = << >>
    /\ op = "init"
    /\ res = None

\* One operation of the division family, applied to a and b, or to a and the
\* limb arg.
Applied(name, outcome) ==
    /\ op = "init"
    /\ op' = name
    /\ res' = outcome
    /\ UNCHANGED << Config, a, b, arg, raw >>

DivRem == Applied("div_rem", div_rem(a, b))

Div == Applied("div", div(a, b))

Rem == Applied("rem", rem(a, b))

OverflowingDivRem == Applied("overflowing_div_rem", overflowing_div_rem(a, b))

CheckedDivRem == Applied("checked_div_rem", checked_div_rem(a, b))

CheckedDiv == Applied("checked_div", checked_div(a, b))

CheckedRem == Applied("checked_rem", checked_rem(a, b))

CheckedDivEuclid == Applied("checked_div_euclid", checked_div_euclid(a, b))

CheckedRemEuclid == Applied("checked_rem_euclid", checked_rem_euclid(a, b))

DivRemUlimb == Applied("div_rem_ulimb", div_rem_ulimb(a, arg))

WrappingDivRemUlimb == Applied("wrapping_div_rem_ulimb", wrapping_div_rem_ulimb(a, arg))

CheckedDivRemUlimb == Applied("checked_div_rem_ulimb", checked_div_rem_ulimb(a, arg))

CheckedDivUlimb == Applied("checked_div_ulimb", checked_div_ulimb(a, arg))

CheckedRemUlimb == Applied("checked_rem_ulimb", checked_rem_ulimb(a, arg))

NextDiv ==
    \/ DivRem
    \/ Div
    \/ Rem
    \/ OverflowingDivRem
    \/ CheckedDivRem
    \/ CheckedDiv
    \/ CheckedRem
    \/ CheckedDivEuclid
    \/ CheckedRemEuclid
    \/ DivRemUlimb
    \/ WrappingDivRemUlimb
    \/ CheckedDivRemUlimb
    \/ CheckedDivUlimb
    \/ CheckedRemUlimb

SpecDiv == InitDiv /\ [][NextDiv]_vars

\* C8: for nonzero b, the signed MIN / -1 aside, (q, r) = a.div_rem(b) has
\* a = b.wrapping_mul(q).wrapping_add(r); for the unsigned type 0 <= r < b;
\* MAX.div_rem(1) is (MAX, 0) and 0.div_rem(b) is (0, 0); and the path taken
\* with overflow checks and the one taken without return the same.
C8_DivisionIdentity ==
    (op = "div_rem" /\ b # from_u8(u8(0)) /\ ~is_div_overflow(a, b)) =>
        /\ res.tag = "Ok"
        /\ a = wrapping_add(wrapping_mul(b, res.val[1]), res.val[2])
        /\ ~is_signed => NumBelow(res.val[2], b)
        /\ (a = max_value /\ b = from_u8(u8(1))) => res.val = << max_value, from_u8(u8(0)) >>
        /\ a = from_u8(u8(0)) => res.val = << from_u8(u8(0)), from_u8(u8(0)) >>
        /\ res = wrapping_div_rem(a, b)
        /\ res = unwrap_or_panic(checked_div_rem(a, b))

\* With overflow checks on, the unsigned MAX was divided by a divisor that goes
\* into it more than once and leaves a remainder.
C8_Witness ==
    /\ op = "div_rem"
    /\ overflow_checks
    /\ ~is_signed
    /\ a = max_value
    /\ b = from_le_bytes(Sample(6))
    /\ res.tag = "Ok"
    /\ NumBelow(from_u8(u8(1)), res.val[1])
    /\ res.val[2] # from_u8(u8(0))

CheckedOps ==
    { "checked_div_rem", "checked_div", "checked_rem", "checked_div_euclid",
      "checked_rem_euclid" }

CheckedUlimbOps == { "checked_div_rem_ulimb", "checked_div_ulimb", "checked_rem_ulimb" }

\* C9: for a zero divisor and any dividend the checked forms, those by a limb
\* included, return None without invoking the wrapping division; div_rem, /,
\* %, overflowing_div_rem, div_rem_ulimb and wrapping_div_rem_ulimb panic, with
\* overflow checks on or off.
C9_ZeroDivisor ==
    /\ (op \in CheckedOps /\ b = from_u8(u8(0))) =>
           res.tag = "None" /\ ~res.divided
    /\ (op \in CheckedUlimbOps /\ is_zero(arg)) =>
           res.tag = "None" /\ ~res.divided
    /\ (op \in { "div_rem", "div", "rem", "overflowing_div_rem" } /\ b = from_u8(u8(0))) =>
           res.tag = "Panic"
    /\ (op \in { "div_rem_ulimb", "wrapping_div_rem_ulimb" } /\ is_zero(arg)) =>
           res.tag = "Panic"

\* A nonzero dividend was divided by the zero limb with the checked form, and
\* no division took place.
C9_Witness ==
    /\ op = "checked_div_rem_ulimb"
    /\ is_zero(arg)
    /\ a = max_value
    /\ res.tag = "None"
    /\ ~res.divided

\* C10 as the specification states it: for the signed type checked_div(MIN, -1)
\* is None, while checked_rem is None for a zero divisor only, so that
\* checked_rem(MIN, -1) produces a value.
C10_RemOfMinByMinusOneIsSome ==
    is_signed =>
        /\ (op = "checked_div" /\ a = min_value /\ b = from_i8(i8(-1))) => res.tag = "None"
        /\ op = "checked_rem" => ((res.tag = "None") = (b = from_u8(u8(0))))

\* C10, amended: for the signed type checked_div and checked_rem are None for
\* the same operands, a zero divisor and MIN with -1, and return a value for
\* all others; checked_rem(MIN, -1) is None as checked_div(MIN, -1) is.
C10_DivAndRemNoneAlike ==
    (is_signed /\ op \in { "checked_div", "checked_rem" }) =>
        /\ (res.tag = "None") = (b = from_u8(u8(0)) \/ (a = min_value /\ b = from_i8(i8(-1))))
        /\ res.tag \in { "None", "Some" }
        /\ res.tag = "None" => ~res.divided

\* The signed checked_rem was applied to MIN and -1 and returned None.
C10_Witness ==
    /\ is_signed
    /\ op = "checked_rem"
    /\ a = min_value
    /\ b = from_i8(i8(-1))
    /\ res.tag = "None"

\* C11: for the signed type overflowing_div_rem(MIN, -1) returns
\* ((MIN, 0), true) and does not panic; for every other pair with a nonzero
\* divisor it returns (wrapping_div_rem(a, b), false); for the unsigned type the
\* flag is false for every nonzero divisor.
C11_OverflowingDivRem ==
    (op = "overflowing_div_rem" /\ b # from_u8(u8(0))) =>
        /\ res.tag = "Ok"
        /\ IF is_signed /\ a = min_value /\ b = from_i8(i8(-1))
           THEN res.val = << << min_value, from_u8(u8(0)) >>, TRUE >>
           ELSE res.val = << wrapping_div_rem(a, b).val, FALSE >>
        /\ ~is_signed => ~res.val[2]

\* The signed MIN was divided by -1: the flag is raised and nothing panicked.
C11_Witness ==
    /\ op = "overflowing_div_rem"
    /\ is_signed
    /\ a = min_value
    /\ b = from_i8(i8(-1))
    /\ res.tag = "Ok"
    /\ res.val[2]

(***************************************************************************)
(* The overflow policies of addition, subtraction and multiplication       *)
(***************************************************************************)
\* A call that returned v.
Ok(v) == [tag |-> "Ok", val |-> v, divided |-> FALSE]

\* The product and whether it overflowed.  Unsigned: a nonzero bit above
\* limb LIMBS of the double-width product.  Signed: the upper half of the
\* signed product (the unsigned one less rhs for a negative self and less self
\* for a negative rhs) is not the sign extension of the lower half.
overflowing_mul(self, rhs) ==
    LET w == widening_mul(self, rhs)
        lo == from_le_limbs(SubSeq(w, 1, LIMBS))
        hi == from_le_limbs(SubSeq(w, LIMBS + 1, 2 * LIMBS))
        h1 == IF is_negative(self) THEN wrapping_sub(hi, rhs) ELSE hi
        h2 == IF is_negative(rhs) THEN wrapping_sub(h1, self) ELSE h1
    IN  << lo,
           IF is_signed
           THEN h2 # (IF is_negative(lo) THEN from_i8(i8(-1)) ELSE from_u8(u8(0)))
           ELSE hi # from_u8(u8(0)) >>

\* checked_add that returns the value when the flag is raised, too.
checked_add_unchecked(self, rhs) ==
    LET p == overflowing_add(self, rhs)
    IN  Some(Ok(p[1]))

checked_add(self, rhs) ==
    LET p == overflowing_add(self, rhs)
    IN  IF ~p[2] THEN Some(Ok(p[1])) ELSE None

checked_sub(self, rhs) ==
    LET p == overflowing_sub(self, rhs)
    IN  IF ~p[2] THEN Some(Ok(p[1])) ELSE None

checked_mul(self, rhs) ==
    LET p == overflowing_mul(self, rhs)
    IN  IF ~p[2] THEN Some(Ok(p[1])) ELSE None

strict_add(self, rhs) == unwrap_or_panic(checked_add(self, rhs))

strict_sub(self, rhs) == unwrap_or_panic(checked_sub(self, rhs))

strict_mul(self, rhs) == unwrap_or_panic(checked_mul(self, rhs))

\* impl Add, impl Sub and impl Mul: the +, - and * operators.
add(self, rhs) ==
    IF ~overflow_checks
    THEN Ok(wrapping_add(self, rhs))
    ELSE unwrap_or_panic(checked_add(self, rhs))

sub(self, rhs) ==
    IF ~overflow_checks
    THEN Ok(wrapping_sub(self, rhs))
    ELSE unwrap_or_panic(checked_sub(self, rhs))

mul(self, rhs) ==
    IF ~overflow_checks
    THEN Ok(wrapping_mul(self, rhs))
    ELSE unwrap_or_panic(checked_mul(self, rhs))

(***************************************************************************)
(* limb_ops_define!: operations with one limb as the second operand        *)
(***************************************************************************)
\* The carry out of limb i - 1 rippling up from limb i: [val, carry], val the
\* limbs i .. LIMBS - 1.  Without a carry the limbs above are left alone.
RECURSIVE ripple_add(_, _, _)
ripple_add(x, i, carry) ==
    IF i = LIMBS THEN [val |-> << >>, carry |-> carry]
    ELSE IF carry = 0 THEN [val |-> SubSeq(x, i + 1, LIMBS), carry |-> 0]
    ELSE LET s == prim_carrying_add(At(x, i), ULimb_MIN, carry)
             rest == ripple_add(x, i + 1, s.carry)
         IN  [val |-> << s.val >> \o rest.val, carry |-> rest.carry]

RECURSIVE ripple_sub(_, _, _)
ripple_sub(x, i, borrow) ==
    IF i = LIMBS THEN [val |-> << >>, carry |-> borrow]
    ELSE IF borrow = 0 THEN [val |-> SubSeq(x, i + 1, LIMBS), carry |-> 0]
    ELSE LET s == prim_borrowing_sub(At(x, i), ULimb_MIN, borrow)
             rest == ripple_sub(x, i + 1, s.carry)
         IN  [val |-> << s.val >> \o rest.val, carry |-> rest.carry]

\* n is added to the lowest limb and the carry ripples up.  Unsigned, the
\* flag is the carry out of the top limb; signed, n is not negative, so the
\* sum overflows when self is not negative and the sum is.
overflowing_add_ulimb(self, n) ==
    LET x == to_le_limbs(self)
        s == prim_carrying_add(At(x, 0), n, 0)
        up == ripple_add(x, 1, s.carry)
        v == from_le_limbs(<< s.val >> \o up.val)
    IN  << v, IF is_signed THEN ~is_negative(self) /\ is_negative(v) ELSE up.carry = 1 >>

overflowing_sub_ulimb(self, n) ==
    LET x == to_le_limbs(self)
        s == prim_borrowing_sub(At(x, 0), n, 0)
        up == ripple_sub(x, 1, s.carry)
        v == from_le_limbs(<< s.val >> \o up.val)
    IN  << v, IF is_signed THEN is_negative(self) /\ ~is_negative(v) ELSE up.carry = 1 >>

\* Every limb of self times n: one row of the schoolbook product.  h is the
\* limb above the result; for a negative self the signed product has h - n
\* there, and it overflows unless that is the sign extension of the result.
overflowing_mul_ulimb(self, n) ==
    LET row == mul_row(n, to_le_limbs(self), Rep(2 * LIMBS, ULimb_MIN), 0, 0, ULimb_MIN)
        v == from_le_limbs(SubSeq(row, 1, LIMBS))
        h == row[LIMBS + 1]
        hs == IF is_negative(self) THEN prim_borrowing_sub(h, n, 0).val ELSE h
        below == is_negative(self) /\ ucmp_from(h, n, LIMB_BYTES) < 0
    IN  << v,
           IF is_signed
           THEN ~(IF is_negative(v)
                  THEN below /\ hs = ULimb_MAX
                  ELSE ~below /\ hs = ULimb_MIN)
           ELSE h # ULimb_MIN >>

wrapping_add_ulimb(self, n) == overflowing_add_ulimb(self, n)[1]

wrapping_sub_ulimb(self, n) == overflowing_sub_ulimb(self, n)[1]

wrapping_mul_ulimb(self, n) == overflowing_mul_ulimb(self, n)[1]

\* checked_add_ulimb that returns the value when the flag is raised, too.
checked_add_ulimb_unchecked(self, n) ==
    LET p == overflowing_add_ulimb(self, n)
    IN  Some(Ok(p[1]))

checked_add_ulimb(self, n) ==
    LET p == overflowing_add_ulimb(self, n)
    IN  IF p[2] THEN None ELSE Some(Ok(p[1]))

checked_sub_ulimb(self, n) ==
    LET p == overflowing_sub_ulimb(self, n)
    IN  IF p[2] THEN None ELSE Some(Ok(p[1]))

checked_mul_ulimb(self, n) ==
    LET p == overflowing_mul_ulimb(self, n)
    IN  IF p[2] THEN None ELSE Some(Ok(p[1]))

add_ulimb(self, n) ==
    IF ~overflow_checks
    THEN Ok(wrapping_add_ulimb(self, n))
    ELSE unwrap_or_panic(checked_add_ulimb(self, n))

sub_ulimb(self, n) ==
    IF ~overflow_checks
    THEN Ok(wrapping_sub_ulimb(self, n))
    ELSE unwrap_or_panic(checked_sub_ulimb(self, n))

mul_ulimb(self, n) ==
    IF ~overflow_checks
    THEN Ok(wrapping_mul_ulimb(self, n))
    ELSE unwrap_or_panic(checked_mul_ulimb(self, n))

\* (self.wrapping_div_rem_ulimb(n), false)
overflowing_div_rem_ulimb(self, n) ==
    LET w == wrapping_div_rem_ulimb(self, n)
    IN  with_val(w, << w.val, FALSE >>)

(***************************************************************************)
(* Operations with a limb, applied                                         *)
(***************************************************************************)
NumLimbValues == 8

NumLimbArgs == 5

\* The samples whose lowest limbs are the limb operands: 0, 1, MAX, 7, a
\* three-byte number and, past the bound, 3 * 2^32 (0 for 32-bit limbs).
LimbArgTable == << 1, 2, 3, 8, 6, 12 >>

LimbValues == { from_le_bytes(Sample(k)) : k \in 1..NumLimbValues }

LimbArgs == { as_ulimb(from_le_bytes(Sample(LimbArgTable[k]))) : k \in 1..NumLimbArgs }

InitLimb ==
    /\ limb_bits \in {32, 64}
    /\ big_endian \in BOOLEAN
    /\ is_signed \in BOOLEAN
    /\ overflow_checks \in BOOLEAN
    /\ a \in LimbValues
    /\ arg \in LimbArgs
    /\ b = from_ulimb(arg)
    /\ raw = << >>
    /\ op = "init"
    /\ res = None

AddUlimb == Applied("add_ulimb", add_ulimb(a, arg))

SubUlimb == Applied("sub_ulimb", sub_ulimb(a, arg))

MulUlimb == Applied("mul_ulimb", mul_ulimb(a, arg))

WrappingAddUlimb == Applied("wrapping_add_ulimb", Ok(wrapping_add_ulimb(a, arg)))

WrappingSubUlimb == Applied("wrapping_sub_ulimb", Ok(wrapping_sub_ulimb(a, arg)))

WrappingMulUlimb == Applied("wrapping_mul_ulimb", Ok(wrapping_mul_ulimb(a, arg)))

OverflowingAddUlimb == Applied("overflowing_add_ulimb", Ok(overflowing_add_ulimb(a, arg)))

OverflowingSubUlimb == Applied("overflowing_sub_ulimb", Ok(overflowing_sub_ulimb(a, arg)))

OverflowingMulUlimb == Applied("overflowing_mul_ulimb", Ok(overflowing_mul_ulimb(a, arg)))

CheckedAddUlimb == Applied("checked_add_ulimb", checked_add_ulimb(a, arg))

CheckedSubUlimb == Applied("checked_sub_ulimb", checked_sub_ulimb(a, arg))

CheckedMulUlimb == Applied("checked_mul_ulimb", checked_mul_ulimb(a, arg))

OverflowingDivRemUlimb ==
    Applied("overflowing_div_rem_ulimb", overflowing_div_rem_ulimb(a, arg))

NextLimb ==
    \/ AddUlimb
    \/ SubUlimb
    \/ MulUlimb
    \/ WrappingAddUlimb
    \/ WrappingSubUlimb
    \/ WrappingMulUlimb
    \/ OverflowingAddUlimb
    \/ OverflowingSubUlimb
    \/ OverflowingMulUlimb
    \/ CheckedAddUlimb
    \/ CheckedSubUlimb
    \/ CheckedMulUlimb
    \/ DivRemUlimb
    \/ WrappingDivRemUlimb
    \/ OverflowingDivRemUlimb
    \/ CheckedDivRemUlimb

SpecLimb == InitLimb /\ [][NextLimb]_vars

\* What the full-width operation that corresponds to the limb operation name
\* returns for self and the widened operand rhs.
Full(name, self, rhs) ==
    CASE name = "add_ulimb" -> add(self, rhs)
      [] name = "sub_ulimb" -> sub(self, rhs)
      [] name = "mul_ulimb" -> mul(self, rhs)
      [] name = "wrapping_add_ulimb" -> Ok(wrapping_add(self, rhs))
      [] name = "wrapping_sub_ulimb" -> Ok(wrapping_sub(self, rhs))
      [] name = "wrapping_mul_ulimb" -> Ok(wrapping_mul(self, rhs))
      [] name = "overflowing_add_ulimb" -> Ok(overflowing_add(self, rhs))
      [] name = "overflowing_sub_ulimb" -> Ok(overflowing_sub(self, rhs))
      [] name = "overflowing_mul_ulimb" -> Ok(overflowing_mul(self, rhs))
      [] name = "checked_add_ulimb" -> checked_add(self, rhs)
      [] name = "checked_sub_ulimb" -> checked_sub(self, rhs)
      [] name = "checked_mul_ulimb" -> checked_mul(self, rhs)
      [] name = "div_rem_ulimb" -> div_rem(self, rhs)
      [] name = "wrapping_div_rem_ulimb" -> wrapping_div_rem(self, rhs)
      [] name = "overflowing_div_rem_ulimb" -> overflowing_div_rem(self, rhs)
      [] name = "checked_div_rem_ulimb" -> checked_div_rem(self, rhs)

LimbDivOps ==
    { "div_rem_ulimb", "wrapping_div_rem_ulimb", "overflowing_div_rem_ulimb",
      "checked_div_rem_ulimb" }

\* The outcome w of a limb division with its remainder limb widened.
Widened(name, w) ==
    IF w.tag \notin { "Ok", "Some" } THEN w
    ELSE IF name = "overflowing_div_rem_ulimb"
    THEN [w EXCEPT !.val = << << @[1][1], from_ulimb(@[1][2]) >>, @[2] >>]
    ELSE [w EXCEPT !.val = << @[1], from_ulimb(@[2]) >>]

\* The limb operation returned what the full-width one returns: the same
\* value and flag, None or Some alike, a panic alike.
LimbAgreesWithFull ==
    LET full == Full(op, a, from_ulimb(arg))
        limb == IF op \in LimbDivOps THEN Widened(op, res) ELSE res
    IN  limb.tag = full.tag /\ limb.val = full.val

prim(n, w) == [i \in 1..w |-> IF i > 3 THEN 0 ELSE (n \div (256 ^ (i - 1))) % 256]

\* The wide word of index `index`, counted from the least significant one: two
\* adjacent limbs of the array, their native bytes joined.
get_wide(self, index) ==
    LET offset == IF big_endian THEN LIMBS - 2 * (index + 1) ELSE 2 * index
        lo == prim_to_ne_bytes(At(self.limbs, offset))
        hi == prim_to_ne_bytes(At(self.limbs, offset + 1))
    IN  prim_from_ne_bytes(lo \o hi)

\* transmute::<[[u8; 16]; 2], [u8; BYTES]>([x, y])
to_flat_bytes(x, y) == x \o y

\* new, high and low assert that the value has four limbs.
new(lo, hi) ==
    LET inst == IF big_endian
                THEN from_be_bytes(to_flat_bytes(Rev(hi), Rev(lo)))
                ELSE from_le_bytes(to_flat_bytes(lo, hi))
    IN  IF Len(inst.limbs) = 4 THEN Ok(inst) ELSE Panic(FALSE)

high(self) ==
    IF Len(self.limbs) = 4 THEN Ok(cast_u(get_wide(self, 1), 16)) ELSE Panic(FALSE)

low(self) ==
    IF Len(self.limbs) = 4 THEN Ok(cast_u(get_wide(self, 0), 16)) ELSE Panic(FALSE)

(***************************************************************************)
(* Shifts                                                                  *)
(***************************************************************************)
\* The pair (lo, hi) of 128-bit halves shifted left by n < 256 bits: whole
\* bytes first, then the bits within the bytes.
shl_u128(lo, hi, n) ==
    LET x == lo \o hi
        k == n \div 8
        s == n % 8
        byte(j) == IF j >= 1 THEN x[j] ELSE 0
        y == [j \in 1..Len(x) |->
                 ((byte(j - k) * (2 ^ s)) % 256) + (byte(j - k - 1) \div (2 ^ (8 - s)))]
    IN  << SubSeq(y, 1, 16), SubSeq(y, 17, 32) >>

\* The pair shifted right by n < 256 bits.  The unsigned type shifts zeros in;
\* the signed one shifts copies of the sign in.
shr_u128(lo, hi, n) ==
    LET x == lo \o hi
        k == n \div 8
        s == n % 8
        fill == IF is_signed /\ prim_is_negative(hi) THEN 255 ELSE 0
        byte(j) == IF j <= Len(x) THEN x[j] ELSE fill
        y == [j \in 1..Len(x) |->
                 (byte(j + k) \div (2 ^ s)) + ((byte(j + k + 1) * (2 ^ (8 - s))) % 256)]
    IN  << SubSeq(y, 1, 16), SubSeq(y, 17, 32) >>

\* rhs % Self::BITS for a u32 rhs, as a number: BITS is 2^8, so it is the lowest
\* byte of rhs.
rem_bits(rhs) == rhs[1] % BITS

\* rhs < Self::BITS for a u32 rhs.
lt_bits(rhs) == prim_lt("unsigned", rhs, prim(BITS, 4))

wrapping_shl(self, rhs) ==
    LET lo == low(self)
        hi == high(self)
        p == shl_u128(lo.val, hi.val, rem_bits(rhs))
    IN  IF lo.tag = "Panic" THEN lo
        ELSE IF hi.tag = "Panic" THEN hi
        ELSE new(p[1], p[2])

wrapping_shr(self, rhs) ==
    LET lo == low(self)
        hi == high(self)
        p == shr_u128(lo.val, hi.val, rem_bits(rhs))
    IN  IF lo.tag = "Panic" THEN lo
        ELSE IF hi.tag = "Panic" THEN hi
        ELSE new(p[1], p[2])

checked_shl(self, rhs) ==
    IF lt_bits(rhs) THEN Some(wrapping_shl(self, rhs)) ELSE None

checked_shr(self, rhs) ==
    IF lt_bits(rhs) THEN Some(wrapping_shr(self, rhs)) ELSE None

strict_shl(self, rhs) == unwrap_or_panic(checked_shl(self, rhs))

strict_shr(self, rhs) == unwrap_or_panic(checked_shr(self, rhs))

unbounded_shl(self, rhs) ==
    IF lt_bits(rhs) THEN wrapping_shl(self, rhs) ELSE Ok(from_u8(u8(0)))

unbounded_shr(self, rhs) ==
    IF lt_bits(rhs) THEN wrapping_shr(self, rhs) ELSE Ok(from_u8(u8(0)))

\* impl Shl for $t and impl Shr for $t: the shift by a value of the type itself,
\* other.low() as u32 & u32::MAX.
shl(self, other) ==
    LET lo == low(other)
    IN  IF lo.tag = "Panic" THEN lo ELSE wrapping_shl(self, cast_u(lo.val, 4))

shr(self, other) ==
    LET lo == low(other)
    IN  IF lo.tag = "Panic" THEN lo ELSE wrapping_shr(self, cast_u(lo.val, 4))

\* shift_define!(@mod): the shift by a primitive integer other = [t, val], t
\* "signed" or "unsigned" and val its bytes.  The assertion is
\* other < Self::BITS as $t && other >= 0, BITS being cast to the type of
\* other.
in_range(other) ==
    /\ prim_lt(other.t, other.val, cast_u(prim(BITS, 4), Len(other.val)))
    /\ ~(other.t = "signed" /\ prim_is_negative(other.val))

\* other as u32
as_u32_prim(other) ==
    IF other.t = "signed" THEN cast_i(other.val, 4) ELSE cast_u(other.val, 4)

shl_prim(self, other) ==
    IF overflow_checks /\ ~in_range(other)
    THEN Panic(FALSE)
    ELSE wrapping_shl(self, as_u32_prim(other))

shr_prim(self, other) ==
    IF overflow_checks /\ ~in_range(other)
    THEN Panic(FALSE)
    ELSE wrapping_shr(self, as_u32_prim(other))

(***************************************************************************)
(* Shifts, applied                                                         *)
(***************************************************************************)
NumShiftValues == 4

NumAmounts == 7

\* The samples that are shifted: 1, all ones, the six-limb data, the top bit;
\* past the bound, the signed MAX.
ShiftValueTable == << 2, 3, 6, 4, 5 >>

ShiftValues == { from_le_bytes(Sample(ShiftValueTable[k])) : k \in 1..NumShiftValues }

\* The shift amounts, as numbers; a type takes those it can hold.
AmountTable == << 0, 1, 8, 65, 255, 256, 257, 129 >>

\* The widths of the primitive integer types: 8, 16, 32, 64 and 128 bits (isize
\* and usize are 32 or 64 bits wide).
Widths == { 1, 2, 4, 8, 16 }

\* The amounts of the type t of w bytes: those of the table that fit, and the
\* one with all bits set (-1 when signed, MAX when unsigned).
AmountsOf(t, w) ==
    { [t |-> t, val |-> prim(AmountTable[k], w)] :
        k \in { i \in 1..NumAmounts :
                  w > 1 \/ AmountTable[i] < (IF t = "signed" THEN 128 ELSE 256) } }
    \cup { [t |-> t, val |-> Rep(w, 255)] }

ShiftAmounts == UNION { AmountsOf(t, w) : t \in { "signed", "unsigned" }, w \in Widths }

IsU32(other) == other.t = "unsigned" /\ Len(other.val) = 4

InitShift ==
    /\ limb_bits \in {32, 64}
    /\ big_endian \in BOOLEAN
    /\ is_signed \in BOOLEAN
    /\ overflow_checks \in BOOLEAN
    /\ a \in ShiftValues
    /\ arg \in ShiftAmounts
    /\ b \in IF IsU32(arg)
             THEN { from_le_bytes(arg.val \o Rep(BYTES - 4, f)) : f \in { 0, 255 } }
             ELSE { from_u8(u8(0)) }
    /\ raw = << >>
    /\ op = "init"
    /\ res = None

WrappingShl == IsU32(arg) /\ Applied("wrapping_shl", wrapping_shl(a, arg.val))

WrappingShr == IsU32(arg) /\ Applied("wrapping_shr", wrapping_shr(a, arg.val))

CheckedShl == IsU32(arg) /\ Applied("checked_shl", checked_shl(a, arg.val))

CheckedShr == IsU32(arg) /\ Applied("checked_shr", checked_shr(a, arg.val))

StrictShl == IsU32(arg) /\ Applied("strict_shl", strict_shl(a, arg.val))

StrictShr == IsU32(arg) /\ Applied("strict_shr", strict_shr(a, arg.val))

UnboundedShl == IsU32(arg) /\ Applied("unbounded_shl", unbounded_shl(a, arg.val))

UnboundedShr == IsU32(arg) /\ Applied("unbounded_shr", unbounded_shr(a, arg.val))

Shl == IsU32(arg) /\ Applied("shl", shl(a, b))

Shr == IsU32(arg) /\ Applied("shr", shr(a, b))

ShlPrim == Applied("shl_prim", shl_prim(a, arg))

ShrPrim == Applied("shr_prim", shr_prim(a, arg))

\* The pair (lo, hi) of 128-bit halves rotated left by n bits, n taken modulo
\* 256: a left shift OR-ed with the complementary right shift of the bits the
\* shift pushes out, whole bytes first and then the bits within the bytes.
rotate_left_u128(lo, hi, n) ==
    LET x == lo \o hi
        k == (n % 256) \div 8
        s == n % 8
        byte(j) == x[((j - 1) % 32) + 1]
        y == [j \in 1..32 |->
                 ((byte(j - k + 32) * (2 ^ s)) % 256) + (byte(j - k - 1 + 32) \div (2 ^ (8 - s)))]
    IN  << SubSeq(y, 1, 16), SubSeq(y, 17, 32) >>

\* The pair rotated right by n bits, n taken modulo 256.
rotate_right_u128(lo, hi, n) ==
    LET x == lo \o hi
        k == (n % 256) \div 8
        s == n % 8
        byte(j) == x[((j - 1) % 32) + 1]
        y == [j \in 1..32 |->
                 (byte(j + k) \div (2 ^ s)) + ((byte(j + k + 1) * (2 ^ (8 - s))) % 256)]
    IN  << SubSeq(y, 1, 16), SubSeq(y, 17, 32) >>

\* The amount n of a rotation enters as a u32; its residue modulo 256 is its
\* lowest byte.
rotate_left(self, n) ==
    LET lo == low(self)
        hi == high(self)
        p == rotate_left_u128(lo.val, hi.val, n[1])
    IN  IF lo.tag = "Panic" THEN lo
        ELSE IF hi.tag = "Panic" THEN hi
        ELSE new(p[1], p[2])

rotate_right(self, n) ==
    LET lo == low(self)
        hi == high(self)
        p == rotate_right_u128(lo.val, hi.val, n[1])
    IN  IF lo.tag = "Panic" THEN lo
        ELSE IF hi.tag = "Panic" THEN hi
        ELSE new(p[1], p[2])

\* The rotations are those of the unsigned type.
RotateLeft ==
    ~is_signed /\ IsU32(arg) /\ Applied("rotate_left", rotate_left(a, arg.val))

RotateRight ==
    ~is_signed /\ IsU32(arg) /\ Applied("rotate_right", rotate_right(a, arg.val))

\* v.rotate_left(n).rotate_right(n)
RotateLeftRight ==
    /\ ~is_signed
    /\ IsU32(arg)
    /\ Applied("rotate_left_right",
               LET l == rotate_left(a, arg.val)
               IN  IF l.tag = "Panic" THEN l ELSE rotate_right(l.val, arg.val))

NextShift ==
    \/ WrappingShl
    \/ WrappingShr
    \/ CheckedShl
    \/ CheckedShr
    \/ StrictShl
    \/ StrictShr
    \/ UnboundedShl
    \/ UnboundedShr
    \/ Shl
    \/ Shr
    \/ ShlPrim
    \/ ShrPrim
    \/ RotateLeft
    \/ RotateRight
    \/ RotateLeftRight

SpecShift == InitShift /\ [][NextShift]_vars

\* Bit j (0 the least significant) of the number the bytes x stand for.
Bit(x, j) == (x[(j \div 8) + 1] \div (2 ^ (j % 8))) % 2

\* y is x * 2^n mod 2^BITS: bit j of y is bit j - n of x.
ShlIs(x, n, y) ==
    \A j \in 0..(BITS - 1) : Bit(y, j) = IF j >= n THEN Bit(x, j - n) ELSE 0

\* y is floor(x / 2^n), the bit `top` coming in from above.
ShrIs(x, n, y, top) ==
    \A j \in 0..(BITS - 1) : Bit(y, j) = IF j + n < BITS THEN Bit(x, j + n) ELSE top

\* The bit that a right shift of v brings in: the sign of a signed value.
TopBit(v) == IF is_negative(v) THEN 1 ELSE 0

\* The result `w` of a left (right) shift of a is a value, a shifted by n bits.
ShiftedBy(name, w, n) ==
    /\ w.tag = "Ok"
    /\ IF name = "shl"
       THEN ShlIs(to_le_bytes(a), n, to_le_bytes(w.val))
       ELSE ShrIs(to_le_bytes(a), n, to_le_bytes(w.val), TopBit(a))

\* C13: for every unsigned a and u32 k, wrapping_shl(a, k) is
\* wrapping_shl(a, k mod BITS) and (a * 2^(k mod BITS)) mod 2^BITS,
\* wrapping_shr(a, k) is wrapping_shr(a, k mod BITS) and
\* floor(a / 2^(k mod BITS)), and neither panics.
C13_WrappingShiftMasks ==
    /\ (~is_signed /\ op = "wrapping_shl") =>
           /\ res.tag = "Ok"
           /\ res = wrapping_shl(a, prim(rem_bits(arg.val), 4))
           /\ ShiftedBy("shl", res, rem_bits(arg.val))
    /\ (~is_signed /\ op = "wrapping_shr") =>
           /\ res.tag = "Ok"
           /\ res = wrapping_shr(a, prim(rem_bits(arg.val), 4))
           /\ ShiftedBy("shr", res, rem_bits(arg.val))

\* C13 holds of the build with 64-bit limbs.
C13_HoldsWithFourLimbs == limb_bits = 64 => C13_WrappingShiftMasks

\* C14: checked_shl and checked_shr return Some(the wrapping shift) for
\* k < BITS and None for k >= BITS; strict_shl and strict_shr panic exactly
\* when k >= BITS and return the wrapping shift otherwise; unbounded_shl and
\* unbounded_shr return the wrapping shift for k < BITS and zero otherwise.
C14_ShiftPolicies ==
    /\ op \in { "checked_shl", "checked_shr" } =>
           IF lt_bits(arg.val)
           THEN /\ res.tag = "Some"
                /\ res.val = (IF op = "checked_shl" THEN wrapping_shl(a, arg.val)
                              ELSE wrapping_shr(a, arg.val)).val
           ELSE res.tag = "None"
    /\ op \in { "strict_shl", "strict_shr" } =>
           /\ (res.tag = "Panic") = ~lt_bits(arg.val)
           /\ lt_bits(arg.val) =>
                  res = (IF op = "strict_shl" THEN wrapping_shl(a, arg.val)
                         ELSE wrapping_shr(a, arg.val))
    /\ op \in { "unbounded_shl", "unbounded_shr" } =>
           /\ res.tag = "Ok"
           /\ res.val = IF ~lt_bits(arg.val) THEN from_u8(u8(0))
                        ELSE IF op = "unbounded_shl" THEN wrapping_shl(a, arg.val).val
                        ELSE wrapping_shr(a, arg.val).val

\* C14 holds of the build with 64-bit limbs.
C14_HoldsWithFourLimbs == limb_bits = 64 => C14_ShiftPolicies

\* C15: a << b is a.wrapping_shl(b mod 2^32) and a >> b is
\* a.wrapping_shr(b mod 2^32), the shift being by b mod BITS bits; the operator
\* panics for no b, overflow checks on or off.
C15_ShiftBySelfType ==
    /\ op = "shl" =>
           /\ res.tag = "Ok"
           /\ res = wrapping_shl(a, SubSeq(to_le_bytes(b), 1, 4))
           /\ ShiftedBy("shl", res, to_le_bytes(b)[1])
    /\ op = "shr" =>
           /\ res.tag = "Ok"
           /\ res = wrapping_shr(a, SubSeq(to_le_bytes(b), 1, 4))
           /\ ShiftedBy("shr", res, to_le_bytes(b)[1])

\* C15 holds of the build with 64-bit limbs.
C15_HoldsWithFourLimbs == limb_bits = 64 => C15_ShiftBySelfType

\* k < 0 or k >= BITS, for the primitive integer other.
OutOfRange(other) ==
    \/ other.t = "signed" /\ prim_is_negative(other.val)
    \/ \E i \in 2..Len(other.val) : other.val[i] # 0

\* C16: with overflow checks on, for every primitive type of the shift amount
\* k, a << k and a >> k panic exactly when k < 0 or k >= BITS and return the
\* wrapping shift by k otherwise; with overflow checks off they never panic and
\* return the wrapping shift by (k as u32).
C16_ShiftByPrimitive ==
    op \in { "shl_prim", "shr_prim" } =>
        LET wrapped == IF op = "shl_prim" THEN wrapping_shl(a, as_u32_prim(arg))
                       ELSE wrapping_shr(a, as_u32_prim(arg))
        IN  IF overflow_checks
            THEN /\ (res.tag = "Panic") = OutOfRange(arg)
                 /\ ~OutOfRange(arg) => res = wrapped
            ELSE res.tag = "Ok" /\ res = wrapped

\* C16 holds of the build with 64-bit limbs for the types wider than 8 bits.
C16_HoldsWithFourLimbsAndWideAmounts ==
    (limb_bits = 64 /\ Len(arg.val) > 1) => C16_ShiftByPrimitive

(***************************************************************************)
(* Exponentiation by squaring                                              *)
(***************************************************************************)
\* exp / 2 for a native integer: the bytes from byte i on, each taking the
\* lowest bit of the byte above it.
RECURSIVE prim_half(_, _)
prim_half(exp, i) ==
    IF i > Len(exp) THEN << >>
    ELSE << (exp[i] \div 2) + 128 * ((IF i < Len(exp) THEN exp[i + 1] ELSE 0) % 2) >>
             \o prim_half(exp, i + 1)

\* The loop of wrapping_pow multiplying the accumulator by the base at every
\* step, the even bits of the exponent included.
RECURSIVE wrapping_pow_loop_every_bit(_, _, _)
wrapping_pow_loop_every_bit(base, acc, exp) ==
    LET acc1 == wrapping_mul(acc, base)
    IN  IF exp = prim(1, 4) THEN acc1
        ELSE CHOOSE r \in { wrapping_pow_loop_every_bit(n[1], n[2], prim_half(exp, 1)) :
                            n \in { << wrapping_mul(base, base), acc1 >> } } : TRUE

\* The loop of wrapping_pow: exp is not 0 here, and the loop returns when the
\* last bit of the exponent has been folded into the accumulator.  The next
\* turn of the loop takes the two products of this one as values (n): TLC
\* evaluates the elements of a set before it binds a variable to them.
RECURSIVE wrapping_pow_loop(_, _, _)
wrapping_pow_loop(base, acc, exp) ==
    LET odd == exp[1] % 2 = 1
        acc1 == IF odd THEN wrapping_mul(acc, base) ELSE acc
    IN  IF odd /\ exp = prim(1, 4) THEN acc1
        ELSE CHOOSE r \in { wrapping_pow_loop(n[1], n[2], prim_half(exp, 1)) :
                            n \in { << wrapping_mul(base, base), acc1 >> } } : TRUE

wrapping_pow(self, exp) ==
    IF is_zero(exp) THEN from_u8(u8(1))
    ELSE wrapping_pow_loop(self, from_u8(u8(1)), exp)

\* The loop of overflowing_pow returning the flag of the last product alone.
RECURSIVE overflowing_pow_loop_last_flag(_, _, _, _)
overflowing_pow_loop_last_flag(base, acc, exp, overflowed) ==
    LET odd == exp[1] % 2 = 1
    IN  CHOOSE out \in
            { IF odd /\ exp = prim(1, 4) THEN << r[1], r[2] >>
              ELSE CHOOSE o \in
                     { overflowing_pow_loop_last_flag(r2[1],
                                            IF odd THEN r[1] ELSE acc,
                                            prim_half(exp, 1),
                                            (IF odd THEN overflowed \/ r[2] ELSE overflowed)
                                                \/ r2[2]) :
                       r2 \in { overflowing_mul(base, base) } } : TRUE :
              r \in { IF odd THEN overflowing_mul(acc, base) ELSE << acc, FALSE >> } } : TRUE

\* The loop of overflowing_pow: r is the product with the accumulator (taken
\* on the odd bits of the exponent only), r2 the square of the base, and
\* overflowed collects the flags of the products before them.
RECURSIVE overflowing_pow_loop(_, _, _, _)
overflowing_pow_loop(base, acc, exp, overflowed) ==
    LET odd == exp[1] % 2 = 1
    IN  CHOOSE out \in
            { IF odd /\ exp = prim(1, 4) THEN << r[1], r[2] \/ overflowed >>
              ELSE CHOOSE o \in
                     { overflowing_pow_loop(r2[1],
                                            IF odd THEN r[1] ELSE acc,
                                            prim_half(exp, 1),
                                            (IF odd THEN overflowed \/ r[2] ELSE overflowed)
                                                \/ r2[2]) :
                       r2 \in { overflowing_mul(base, base) } } : TRUE :
              r \in { IF odd THEN overflowing_mul(acc, base) ELSE << acc, FALSE >> } } : TRUE

overflowing_pow(self, exp) ==
    IF is_zero(exp) THEN << from_u8(u8(1)), FALSE >>
    ELSE overflowing_pow_loop(self, from_u8(u8(1)), exp, FALSE)

checked_pow(self, base) ==
    LET p == overflowing_pow(self, base)
    IN  IF ~p[2] THEN Some(Ok(p[1])) ELSE None

strict_pow(self, rhs) == unwrap_or_panic(checked_pow(self, rhs))

pow(self, exp) ==
    IF ~overflow_checks THEN Ok(wrapping_pow(self, exp)) ELSE strict_pow(self, exp)

(***************************************************************************)
(* The overflow policies, applied                                          *)
(***************************************************************************)
\* How many of the cases below the operands and the exponent are drawn from.
NumPowCases == 8

\* The value k < 256, as BYTES bytes.
Small(k) == << k >> \o Rep(BYTES - 1, 0)

\* self, rhs and the exponent of a case.
PowCaseTable ==
    << << Small(3), Sample(3), 5 >>,        \* 3 and the unsigned MAX (signed -1)
       << Sample(3), Small(1), 3 >>,        \* the unsigned MAX (signed -1) and 1
       << Small(3), Small(7), 257 >>,       \* an exponent of more than a byte
       << Sample(4), Small(1), 2 >>,        \* the signed MIN and 1
       << Small(0), Small(0), 0 >>,         \* 0 to the power 0
       << Sample(5), Sample(5), 1 >>,       \* the signed MAX, twice
       << Sample(10), Small(2), 255 >>,     \* -2 to the power 255 is the signed MIN
       << Small(2), Sample(10), 255 >>,     \* 2^255 is above the signed MAX
       << Small(2), Sample(10), 16 >> >>

PowCases == { PowCaseTable[k] : k \in 1..NumPowCases }

InitPow ==
    /\ limb_bits \in {32, 64}
    /\ big_endian \in BOOLEAN
    /\ is_signed \in BOOLEAN
    /\ overflow_checks \in BOOLEAN
    /\ \E c \in PowCases :
          /\ a = from_le_bytes(c[1])
          /\ b = from_le_bytes(c[2])
          /\ arg = prim(c[3], 4)
    /\ raw = << >>
    /\ op = "init"
    /\ res = None

OverflowingMul == Applied("overflowing_mul", Ok(overflowing_mul(a, b)))

OverflowingPow == Applied("overflowing_pow", Ok(overflowing_pow(a, arg)))

WrappingPow == Applied("wrapping_pow", Ok(wrapping_pow(a, arg)))

CheckedAdd == Applied("checked_add", checked_add(a, b))

CheckedSub == Applied("checked_sub", checked_sub(a, b))

CheckedMul == Applied("checked_mul", checked_mul(a, b))

CheckedPow == Applied("checked_pow", checked_pow(a, arg))

StrictAdd == Applied("strict_add", strict_add(a, b))

StrictSub == Applied("strict_sub", strict_sub(a, b))

StrictMul == Applied("strict_mul", strict_mul(a, b))

StrictPow == Applied("strict_pow", strict_pow(a, arg))

Add == Applied("add", add(a, b))

Sub == Applied("sub", sub(a, b))

Mul == Applied("mul", mul(a, b))

Pow == Applied("pow", pow(a, arg))

NextPow ==
    \/ OverflowingAdd
    \/ OverflowingSub
    \/ OverflowingMul
    \/ OverflowingPow
    \/ WrappingPow
    \/ CheckedAdd
    \/ CheckedSub
    \/ CheckedMul
    \/ CheckedPow
    \/ StrictAdd
    \/ StrictSub
    \/ StrictMul
    \/ StrictPow
    \/ Add
    \/ Sub
    \/ Mul
    \/ Pow

SpecPow == InitPow /\ [][NextPow]_vars

\* The operation a form belongs to.
OpOf(name) ==
    CASE name \in {"overflowing_add", "checked_add", "strict_add", "add"} -> "add"
      [] name \in {"overflowing_sub", "checked_sub", "strict_sub", "sub"} -> "sub"
      [] name \in {"overflowing_mul", "checked_mul", "strict_mul", "mul"} -> "mul"
      [] name \in {"overflowing_pow", "checked_pow", "strict_pow", "pow"} -> "pow"
      [] OTHER -> "none"

\* The wrapping result of the operation on the operands of the state.
WrappingOf(o) ==
    CASE o = "add" -> wrapping_add(a, b)
      [] o = "sub" -> wrapping_sub(a, b)
      [] o = "mul" -> wrapping_mul(a, b)
      [] o = "pow" -> wrapping_pow(a, arg)

\* The flag of the overflowing form of the operation.
FlagOf(o) ==
    CASE o = "add" -> overflowing_add(a, b)[2]
      [] o = "sub" -> overflowing_sub(a, b)[2]
      [] o = "mul" -> overflowing_mul(a, b)[2]
      [] o = "pow" -> overflowing_pow(a, arg)[2]

\* C17: for add, sub, mul and pow, the overflowing form returns the wrapping
\* result and a flag; the checked form returns Some(wrapping result) exactly
\* when the flag is false and None exactly when it is true; the strict form
\* panics exactly when the checked form is None and returns the same value
\* otherwise; the default operators +, -, * and pow return the wrapping result
\* without overflow checks and panic exactly when the checked form is None
\* with them.
C17_PolicyForms ==
    LET o == OpOf(op)
    IN  /\ op \in {"overflowing_add", "overflowing_sub"} =>
              /\ res[1] = WrappingOf(o)
              /\ res[2] \in BOOLEAN
        /\ op \in {"overflowing_mul", "overflowing_pow"} =>
              /\ res.tag = "Ok"
              /\ res.val[1] = WrappingOf(o)
              /\ res.val[2] \in BOOLEAN
        /\ op \in {"checked_add", "checked_sub", "checked_mul", "checked_pow"} =>
              IF FlagOf(o) THEN res = None ELSE res = Some(Ok(WrappingOf(o)))
        /\ op \in {"strict_add", "strict_sub", "strict_mul", "strict_pow"} =>
              IF FlagOf(o) THEN res.tag = "Panic" ELSE res = Ok(WrappingOf(o))
        /\ op \in {"add", "sub", "mul", "pow"} =>
              IF overflow_checks /\ FlagOf(o)
              THEN res.tag = "Panic"
              ELSE res = Ok(WrappingOf(o))

\* 3 plus the unsigned MAX overflows: checked_add returned None where the
\* overflowing form raises its flag and wraps to 2.
C17_Witness ==
    /\ ~is_signed
    /\ op = "checked_add"
    /\ a = from_u8(u8(3))
    /\ b = max_value
    /\ res = None
    /\ overflowing_add(a, b) = << from_u8(u8(2)), TRUE >>

\* The exponent as a number; the exponents of the cases are below 2^24.
ExpNum(exp) == exp[1] + 256 * exp[2] + 65536 * exp[3]

\* x to the power e modulo 2^BITS, from x^0 = 1, x^(2k) = (x^k)^2 and
\* x^(k+1) = x^k * x.
RECURSIVE Power(_, _)
Power(x, e) ==
    IF e = 0 THEN from_u8(u8(1))
    ELSE IF e % 2 = 0
    THEN CHOOSE r \in { wrapping_mul(h, h) : h \in { Power(x, e \div 2) } } : TRUE
    ELSE CHOOSE r \in { wrapping_mul(h, x) : h \in { Power(x, e - 1) } } : TRUE

\* C18: wrapping_pow(x, e) is x^e modulo 2^BITS for every base and exponent,
\* and wrapping_pow(x, 0) is 1 for every x, 0 included.
C18_WrappingPow ==
    op = "wrapping_pow" =>
        /\ res.tag = "Ok"
        /\ res.val = Power(a, ExpNum(arg))
        /\ is_zero(arg) => res.val = from_u8(u8(1))

\* 3 was raised to the power 5, an exponent with a zero bit between two set
\* bits, and the result is 243.
C18_Witness ==
    /\ op = "wrapping_pow"
    /\ a = from_u8(u8(3))
    /\ arg = prim(5, 4)
    /\ res.val = from_u8(u8(243))

(***************************************************************************)
(* bigint_define!: addition with a carry in, subtraction with a borrow in  *)
(***************************************************************************)
\* The sum, the flag of self + rhs and the flag of adding the carry to it.
carrying_add_parts(self, rhs, carry) ==
    LET ab == overflowing_add(self, rhs)
        cd == overflowing_add_ulimb(ab[1], cast_u(u8(IF carry THEN 1 ELSE 0), LIMB_BYTES))
    IN  << cd[1], ab[2], cd[2] >>

\* carrying_add that reports the flag of self + rhs alone.
carrying_add_first_flag(self, rhs, carry) ==
    LET r == carrying_add_parts(self, rhs, carry)
    IN  << r[1], r[2] >>

carrying_add(self, rhs, carry) ==
    LET r == carrying_add_parts(self, rhs, carry)
    IN  << r[1], r[2] \/ r[3] >>

\* The difference, the flag of self - rhs and the flag of subtracting the
\* borrow from it.
borrowing_sub_parts(self, rhs, borrow) ==
    LET ab == overflowing_sub(self, rhs)
        cd == overflowing_sub_ulimb(ab[1], cast_u(u8(IF borrow THEN 1 ELSE 0), LIMB_BYTES))
    IN  << cd[1], ab[2], cd[2] >>

borrowing_sub(self, rhs, borrow) ==
    LET r == borrowing_sub_parts(self, rhs, borrow)
    IN  << r[1], r[2] \/ r[3] >>

(***************************************************************************)
(* Carries and borrows, applied                                            *)
(***************************************************************************)
\* How many of the samples the operands are drawn from, and how many of the
\* pairs of high halves.
NumCarryValues == 5

NumHighPairs == 3

CarryValueTable == << 1, 3, 2, 4, 10, 6 >>

CarryValues == { from_le_bytes(Sample(CarryValueTable[k])) : k \in 1..NumCarryValues }

\* The high halves of two double-width operands, BYTES bytes each.
HighPairTable ==
    << Sample(1) \o Sample(3),      \* 0 and MAX: the carry alone overflows
       Sample(3) \o Sample(3),      \* MAX and MAX
       Sample(4) \o Sample(2),      \* 2^255 and 1
       Sample(8) \o Sample(6) >>

HighPairs == { HighPairTable[k] : k \in 1..NumHighPairs }

InitCarry ==
    /\ limb_bits \in {32, 64}
    /\ big_endian \in BOOLEAN
    /\ is_signed \in BOOLEAN
    /\ overflow_checks = FALSE
    /\ a \in CarryValues
    /\ b \in CarryValues
    /\ arg \in BOOLEAN
    /\ raw \in HighPairs
    /\ op = "init"
    /\ res = None

CarryingAdd == Applied("carrying_add", Ok(carrying_add(a, b, arg)))

BorrowingSub == Applied("borrowing_sub", Ok(borrowing_sub(a, b, arg)))

\* The high half of the first (k = 1) or second (k = 2) double-width operand.
HighHalf(k) == from_le_bytes(SubSeq(raw, (k - 1) * BYTES + 1, k * BYTES))

\* carrying_add over the low halves a and b, then over the high halves with
\* the carry out of the low ones: low sum, high sum, carry out.
CarryingAddChained ==
    LET lo == carrying_add(a, b, arg)
        hi == carrying_add(HighHalf(1), HighHalf(2), lo[2])
    IN  Applied("carrying_add_chained", Ok(<< lo[1], hi[1], hi[2] >>))

NextCarry ==
    \/ CarryingAdd
    \/ BorrowingSub
    \/ CarryingAddChained

SpecCarry == InitCarry /\ [][NextCarry]_vars

\* More moduli, coprime to one another and to those above: the product of
\* all exceeds 2^514.
WideModuli ==
    Moduli \cup
    { 32563, 32561, 32537, 32533, 32531, 32507, 32503, 32497, 32491,
      32479, 32467, 32443, 32441, 32429, 32423, 32413, 32411, 32401 }

Bit01(f) == IF f THEN 1 ELSE 0

\* 2^BITS modulo p.
TwoToBits(p) == Residue(Rep(BYTES, 0) \o << 1 >>, 1, p)

\* x + y + c = s + f * 2^BITS as numbers.
Sum3Is(x, y, c, s, f) ==
    \A p \in Moduli :
        (Residue(to_le_bytes(x), 1, p) + Residue(to_le_bytes(y), 1, p) + Bit01(c)) % p
            = (Residue(to_le_bytes(s), 1, p) + Bit01(f) * TwoToBits(p)) % p

\* lo + hi * 2^BITS modulo p.
WideResidue(lo, hi, p) ==
    (Residue(to_le_bytes(lo), 1, p) + TwoToBits(p) * Residue(to_le_bytes(hi), 1, p)) % p

\* C19: for unsigned operands and a carry or borrow bit c, carrying_add is
\* ((a + b + c) mod 2^BITS, a + b + c >= 2^BITS) and borrowing_sub is
\* ((a - b - c) mod 2^BITS, a < b + c); the two overflow signals inside are
\* never both true; and carrying_add over the low halves and then the high
\* halves of two double-width numbers gives their exact sum.
C19_CarryingAddBorrowingSub ==
    ~is_signed =>
        /\ op = "carrying_add" =>
              /\ res.val[2] \in BOOLEAN
              /\ Sum3Is(a, b, arg, res.val[1], res.val[2])
              /\ LET r == carrying_add_parts(a, b, arg) IN ~(r[2] /\ r[3])
        /\ op = "borrowing_sub" =>
              /\ res.val[2] \in BOOLEAN
              /\ Sum3Is(res.val[1], b, arg, a, res.val[2])
              /\ LET r == borrowing_sub_parts(a, b, arg) IN ~(r[2] /\ r[3])
        /\ op = "carrying_add_chained" =>
              /\ res.val[3] \in BOOLEAN
              /\ \A p \in WideModuli :
                    (WideResidue(a, HighHalf(1), p) + WideResidue(b, HighHalf(2), p)
                        + Bit01(arg)) % p
                    = (WideResidue(res.val[1], res.val[2], p)
                        + Bit01(res.val[3]) * ((TwoToBits(p) * TwoToBits(p)) % p)) % p

\* 0 + MAX + 1: the sum itself does not overflow, adding the carry does, and
\* the result is 0 with the carry out raised.
C19_Witness ==
    /\ ~is_signed
    /\ op = "carrying_add"
    /\ a = from_u8(u8(0))
    /\ b = max_value
    /\ arg
    /\ res.val = << from_u8(u8(0)), TRUE >>
    /\ carrying_add_parts(a, b, arg)[3]

(***************************************************************************)
(* The 128-bit halves, applied                                             *)
(***************************************************************************)
InitHalves ==
    /\ limb_bits \in {32, 64}
    /\ big_endian \in BOOLEAN
    /\ is_signed \in BOOLEAN
    /\ overflow_checks = FALSE
    /\ a \in SampleValues
    /\ b = a
    /\ arg = 0
    /\ raw \in Samples
    /\ op = "init"
    /\ res = None

\* The low and the high 128 bits handed to new, 16 bytes each.
RawLow == SubSeq(raw, 1, 16)

RawHigh == SubSeq(raw, 17, BYTES)

Low == Applied("low", low(a))

High == Applied("high", high(a))

\* new(a.low(), a.high())
NewOfHalves ==
    LET lo == low(a)
        hi == high(a)
    IN  Applied("new_of_halves",
                IF lo.tag = "Ok" /\ hi.tag = "Ok" THEN new(lo.val, hi.val) ELSE Panic(FALSE))

\* new(lo, hi).low()
LowOfNew ==
    LET v == new(RawLow, RawHigh)
    IN  Applied("low_of_new", IF v.tag = "Ok" THEN low(v.val) ELSE v)

\* new(lo, hi).high()
HighOfNew ==
    LET v == new(RawLow, RawHigh)
    IN  Applied("high_of_new", IF v.tag = "Ok" THEN high(v.val) ELSE v)

NextHalves ==
    \/ Low
    \/ High
    \/ NewOfHalves
    \/ LowOfNew
    \/ HighOfNew

SpecHalves == InitHalves /\ [][NextHalves]_vars

\* What low, high and new return when they return: the halves of the value in
\* order of significance, and the value made of two halves.
HalvesAre ==
    /\ op = "low" => res = Ok(SubSeq(to_le_bytes(a), 1, 16))
    /\ op = "high" => res = Ok(SubSeq(to_le_bytes(a), 17, BYTES))
    /\ op = "new_of_halves" => (res.tag = "Ok" /\ res.val = a)
    /\ op = "low_of_new" => res = Ok(RawLow)
    /\ op = "high_of_new" => res = Ok(RawHigh)

C20_HoldsWithFourLimbs ==
    (op # "init" /\ limb_bits = 64) => (res.tag = "Ok" /\ HalvesAre)

(***************************************************************************)
(* casts_define!: from and to the primitive integers                       *)
(***************************************************************************)
\* value << bits, for the whole-byte shifts of the casts (32, 64, 96).
prim_shl(x, bits) ==
    LET k == bits \div 8 IN Rep(k, 0) \o SubSeq(x, 1, Len(x) - k)

\* x | y, bit by bit.
prim_or(x, y) ==
    [i \in 1..Len(x) |->
        LET bit(n, j) == (n \div (2 ^ j)) % 2
            or(j) == IF bit(x[i], j) + bit(y[i], j) > 0 THEN 2 ^ j ELSE 0
        IN  or(0) + or(1) + or(2) + or(3) + or(4) + or(5) + or(6) + or(7)]

from_u16(value) == from_u32(cast_u(value, 4))

\* limbs[k] = (value >> (k * ULimb::BITS)) as ULimb for the limbs a u128 fills.
u128_limbs(limbs, value) ==
    IF limb_bits = 32
    THEN ne_index_set(ne_index_set(ne_index_set(ne_index_set(limbs,
             0, cast_u(value, LIMB_BYTES)),
             1, cast_u(prim_shr(value, 32), LIMB_BYTES)),
             2, cast_u(prim_shr(value, 64), LIMB_BYTES)),
             3, cast_u(prim_shr(value, 96), LIMB_BYTES))
    ELSE ne_index_set(ne_index_set(limbs,
             0, cast_u(value, LIMB_BYTES)),
             1, cast_u(prim_shr(value, 64), LIMB_BYTES))

from_u128(value) == from_ne_limbs(u128_limbs(Rep(LIMBS, ULimb_MIN), value))

from_i16(value) == from_i32(cast_i(value, 4))

from_i128(value) ==
    from_ne_limbs(u128_limbs(Rep(LIMBS, sign_bit(value)), cast_u(value, 16)))

as_u32(self) == cast_u(ne_index(to_ne_limbs(self), 0), 4)

as_u8(self) == cast_u(as_u32(self), 1)

as_u16(self) == cast_u(as_u32(self), 2)

as_u64(self) ==
    LET limbs == to_ne_limbs(self)
    IN  IF limb_bits = 32
        THEN prim_or(cast_u(ne_index(limbs, 0), 8),
                     prim_shl(cast_u(ne_index(limbs, 1), 8), 32))
        ELSE cast_u(ne_index(limbs, 0), 8)

as_u128(self) ==
    LET limbs == to_ne_limbs(self)
        x(k) == cast_u(ne_index(limbs, k), 16)
    IN  IF limb_bits = 32
        THEN prim_or(prim_or(prim_or(x(0), prim_shl(x(1), 32)), prim_shl(x(2), 64)),
                     prim_shl(x(3), 96))
        ELSE prim_or(x(0), prim_shl(x(1), 64))

as_i8(self) == cast_i(as_u8(self), 1)

as_i16(self) == cast_i(as_u16(self), 2)

as_i32(self) == cast_i(as_u32(self), 4)

as_i64(self) == cast_i(as_u64(self), 8)

as_i128(self) == cast_i(as_u128(self), 16)

\* from_<type of other>(other)
from_prim(other) ==
    LET w == Len(other.val)
    IN  IF other.t = "signed"
        THEN CASE w = 1 -> from_i8(other.val)
               [] w = 2 -> from_i16(other.val)
               [] w = 4 -> from_i32(other.val)
               [] w = 8 -> from_i64(other.val)
               [] w = 16 -> from_i128(other.val)
        ELSE CASE w = 1 -> from_u8(other.val)
               [] w = 2 -> from_u16(other.val)
               [] w = 4 -> from_u32(other.val)
               [] w = 8 -> from_u64(other.val)
               [] w = 16 -> from_u128(other.val)

\* as_<the type of t and w bytes>(self)
as_prim(self, t, w) ==
    IF t = "signed"
    THEN CASE w = 1 -> as_i8(self)
           [] w = 2 -> as_i16(self)
           [] w = 4 -> as_i32(self)
           [] w = 8 -> as_i64(self)
           [] w = 16 -> as_i128(self)
    ELSE CASE w = 1 -> as_u8(self)
           [] w = 2 -> as_u16(self)
           [] w = 4 -> as_u32(self)
           [] w = 8 -> as_u64(self)
           [] w = 16 -> as_u128(self)

\* Err(TryFromIntError {})
Err == [tag |-> "Err", val |-> << >>, divided |-> FALSE]

\* try_from without the test of the sign.
try_from_any_sign(u) == Ok(from_u128(cast_i(u.val, 16)))

\* try_from_define!: TryFrom<$t> for a primitive integer type $t; u >= 0 and
\* `u as u128` are those of the type of u.
try_from(u) ==
    IF ~(u.t = "signed" /\ prim_is_negative(u.val))
    THEN Ok(from_u128(IF u.t = "signed" THEN cast_i(u.val, 16) ELSE cast_u(u.val, 16)))
    ELSE Err

(***************************************************************************)
(* Casts, applied                                                          *)
(***************************************************************************)
\* How many bit patterns a primitive value is drawn from, per type.
NumPrimPatterns == 6

\* The k-th pattern of w bytes: 0, 1, all ones (-1 or MAX), the top bit alone
\* (the signed MIN), all but the top bit (the signed MAX), then mixed bytes.
PrimPattern(k, w) ==
    CASE k = 1 -> Rep(w, 0)
      [] k = 2 -> << 1 >> \o Rep(w - 1, 0)
      [] k = 3 -> Rep(w, 255)
      [] k = 4 -> Rep(w - 1, 0) \o << 128 >>
      [] k = 5 -> Rep(w - 1, 255) \o << 127 >>
      [] OTHER -> [j \in 1..w |-> (k * 53 + j * j * k + 29 * j + 128 * (j \div w)) % 256]

PrimValues ==
    { [t |-> t, val |-> PrimPattern(k, w)] :
        t \in { "signed", "unsigned" }, w \in Widths, k \in 1..NumPrimPatterns }

InitCast ==
    /\ limb_bits \in {32, 64}
    /\ big_endian \in BOOLEAN
    /\ is_signed \in BOOLEAN
    /\ overflow_checks = FALSE
    /\ a = from_u8(u8(0))
    /\ b = a
    /\ arg \in PrimValues
    /\ raw = << >>
    /\ op = "init"
    /\ res = None

FromPrim == Applied("from_prim", Ok(from_prim(arg)))

\* as_W(from_W(x))
AsOfFrom == Applied("as_of_from", Ok(as_prim(from_prim(arg), arg.t, Len(arg.val))))

TryFrom == Applied("try_from", try_from(arg))

NextCast ==
    \/ FromPrim
    \/ AsOfFrom
    \/ TryFrom

SpecCast == InitCast /\ [][NextCast]_vars

\* The bytes of x followed by copies of its sign (signed) or by zeros.
Extension(other) ==
    other.val \o Rep(BYTES - Len(other.val),
                     IF other.t = "signed" /\ other.val[Len(other.val)] >= 128
                     THEN 255 ELSE 0)

CastsExtend ==
    /\ op = "from_prim" => to_le_bytes(res.val) = Extension(arg)
    /\ op = "as_of_from" => res.val = arg.val

\* C21: for every signed primitive width and value, from_iW(x) is the sign
\* extension of x to BITS bits and as_iW(from_iW(x)) is x; for every unsigned
\* one from_uW(x) is the zero extension and as_uW(from_uW(x)) is x; with
\* 32-bit limbs and with 64-bit limbs alike.
C21_CastsExtend == CastsExtend

\* The same for all but the 64-bit signed source with 32-bit limbs.
C21_HoldsButForI64WithEightLimbs ==
    ~(limb_bits = 32 /\ arg.t = "signed" /\ Len(arg.val) = 8) => CastsExtend

\* C22: for the unsigned type and every value u of a signed primitive type,
\* TryFrom returns Err exactly when u < 0 and otherwise Ok(v) with v equal to
\* u as a number; it never panics and never returns a truncated or wrapped
\* value.
C22_TryFromSigned ==
    (~is_signed /\ op = "try_from" /\ arg.t = "signed") =>
        IF arg.val[Len(arg.val)] >= 128
        THEN res = Err
        ELSE /\ res.tag = "Ok"
             /\ to_le_bytes(res.val) = arg.val \o Rep(BYTES - Len(arg.val), 0)

\* TryFrom of the i64 -1 returned the error, and nothing was converted.
C22_Witness ==
    /\ ~is_signed
    /\ op = "try_from"
    /\ arg = [t |-> "signed", val |-> Rep(8, 255)]
    /\ res = Err

\* TryFrom of i128::MAX returned the value, with its 127 bits.
C22_WitnessOk ==
    /\ ~is_signed
    /\ op = "try_from"
    /\ arg = [t |-> "signed", val |-> Rep(15, 255) \o << 127 >>]
    /\ res.tag = "Ok"
    /\ to_le_bytes(res.val) = Rep(15, 255) \o << 127 >> \o Rep(16, 0)

(***************************************************************************)
(* bitops_define! and the byte and bit reversals                           *)
(***************************************************************************)
\* The eight bits of a byte, reversed.
byte_reverse_bits(n) ==
    LET bit(j) == (n \div (2 ^ j)) % 2
    IN  128 * bit(0) + 64 * bit(1) + 32 * bit(2) + 16 * bit(3)
          + 8 * bit(4) + 4 * bit(5) + 2 * bit(6) + bit(7)

\* reverse_bits of a primitive integer.
prim_reverse_bits(x) == [i \in 1..Len(x) |-> byte_reverse_bits(x[Len(x) + 1 - i])]

\* The number of ones of a byte.
byte_count_ones(n) ==
    LET bit(j) == (n \div (2 ^ j)) % 2
    IN  bit(0) + bit(1) + bit(2) + bit(3) + bit(4) + bit(5) + bit(6) + bit(7)

\* count_ones of a primitive integer, from byte i on.
RECURSIVE prim_count_ones(_, _)
prim_count_ones(x, i) ==
    IF i > Len(x) THEN 0 ELSE byte_count_ones(x[i]) + prim_count_ones(x, i + 1)

\* The leading zeros of a byte below 256.
byte_leading_zeros(n) ==
    CASE n >= 128 -> 0 [] n >= 64 -> 1 [] n >= 32 -> 2 [] n >= 16 -> 3
      [] n >= 8 -> 4 [] n >= 4 -> 5 [] n >= 2 -> 6 [] n >= 1 -> 7 [] OTHER -> 8

\* leading_zeros of a primitive integer, from byte i down.
RECURSIVE prim_leading_zeros(_, _)
prim_leading_zeros(x, i) ==
    IF i = 0 THEN 0
    ELSE IF x[i] = 0 THEN 8 + prim_leading_zeros(x, i - 1)
    ELSE byte_leading_zeros(x[i])

\* trailing_zeros of a primitive integer, from byte i up.
RECURSIVE prim_trailing_zeros(_, _)
prim_trailing_zeros(x, i) ==
    IF i > Len(x) THEN 0
    ELSE IF x[i] = 0 THEN 8 + prim_trailing_zeros(x, i + 1)
    ELSE byte_leading_zeros(byte_reverse_bits(x[i]))

\* The loop of count_ones, from limb i on.
RECURSIVE count_ones_from(_, _)
count_ones_from(self, i) ==
    IF i < LIMBS
    THEN prim_count_ones(At(self.limbs, i), 1) + count_ones_from(self, i + 1)
    ELSE 0

count_ones(self) == count_ones_from(self, 0)

\* The loop of reverse_bits runs while i < 4; the other limbs of r stay 0.
reverse_bits(self) ==
    [limbs |-> [i \in 1..LIMBS |->
                  IF i - 1 < 4
                  THEN prim_reverse_bits(At(self.limbs, LIMBS - 1 - (i - 1)))
                  ELSE ULimb_MIN]]

\* The loop of leading_zeros without the test of the running count.
RECURSIVE leading_zeros_every_limb(_, _, _)
leading_zeros_every_limb(self, i, count) ==
    IF i < LIMBS
    THEN CHOOSE r \in { leading_zeros_every_limb(self, i + 1, c) :
                        c \in { count + prim_leading_zeros(get_limb(self, LIMBS - i - 1),
                                                           LIMB_BYTES) } } : TRUE
    ELSE count

\* The loop of leading_zeros: it goes on while every limb so far was zero,
\* that is while the count is i times the width of a limb.
RECURSIVE leading_zeros_loop(_, _, _)
leading_zeros_loop(self, i, count) ==
    IF i < LIMBS /\ count = i * limb_bits
    THEN CHOOSE r \in { leading_zeros_loop(self, i + 1, c) :
                        c \in { count + prim_leading_zeros(get_limb(self, LIMBS - i - 1),
                                                           LIMB_BYTES) } } : TRUE
    ELSE count

leading_zeros(self) == leading_zeros_loop(self, 0, 0)

RECURSIVE trailing_zeros_loop(_, _, _)
trailing_zeros_loop(self, i, count) ==
    IF i < LIMBS /\ count = i * limb_bits
    THEN CHOOSE r \in { trailing_zeros_loop(self, i + 1, c) :
                        c \in { count + prim_trailing_zeros(get_limb(self, i), 1) } } : TRUE
    ELSE count

trailing_zeros(self) == trailing_zeros_loop(self, 0, 0)

checked_ilog2(self) ==
    IF le_const(self, from_u8(u8(0)))
    THEN None
    ELSE Some(Ok(BITS - 1 - leading_zeros(self)))

(***************************************************************************)
(* Bits and bytes, applied                                                 *)
(***************************************************************************)
\* The samples, and the signed MAX shifted right by two.
BitValues == SampleValues \cup { from_le_bytes(Rep(31, 255) \o << 31 >>) }

InitBits ==
    /\ limb_bits \in {32, 64}
    /\ big_endian \in BOOLEAN
    /\ is_signed \in BOOLEAN
    /\ overflow_checks = FALSE
    /\ a \in BitValues
    /\ b = a
    /\ arg = 0
    /\ raw = << >>
    /\ op = "init"
    /\ res = None

ReverseBits == Applied("reverse_bits", Ok(reverse_bits(a)))

ReverseBitsTwice == Applied("reverse_bits_twice", Ok(reverse_bits(reverse_bits(a))))

\* Bit j of v reads as the bit 8 * k + j of its k-th byte in order of significance.
BitsReversed(v, r) ==
    \A j \in 0..(BITS - 1) : Bit(to_le_bytes(r), j) = Bit(to_le_bytes(v), BITS - 1 - j)

BitsAreReversed ==
    /\ op = "reverse_bits" =>
          /\ BitsReversed(a, res.val)
          /\ count_ones(res.val) = count_ones(a)
    /\ op = "reverse_bits_twice" => res.val = a

LeadingZeros == Applied("leading_zeros", Ok(leading_zeros(a)))

TrailingZeros == Applied("trailing_zeros", Ok(trailing_zeros(a)))

CheckedIlog2 == Applied("checked_ilog2", checked_ilog2(a))

SwapBytes == Applied("swap_bytes", Ok(swap_bytes(a)))

SwapBytesTwice == Applied("swap_bytes_twice", Ok(swap_bytes(swap_bytes(a))))

ToBeBytes == Applied("to_be_bytes", Ok(to_be_bytes(a)))

ToBeLimbs == Applied("to_be_limbs", Ok(to_be_limbs(a)))

NextBits ==
    \/ ReverseBits
    \/ ReverseBitsTwice
    \/ LeadingZeros
    \/ TrailingZeros
    \/ CheckedIlog2
    \/ SwapBytes
    \/ SwapBytesTwice
    \/ ToBeBytes
    \/ ToBeLimbs

SpecBits == InitBits /\ [][NextBits]_vars

\* C23: with four limbs and with eight, bit i of reverse_bits(v) is bit
\* BITS-1-i of v for every i, so reversing twice gives v back and
\* count_ones is preserved.
C23_ReverseBits == BitsAreReversed

\* The same with four limbs only.
C23_HoldsWithFourLimbs == limb_bits = 64 => BitsAreReversed

\* The bits of v that are set, by their places.
SetBits(v) == { j \in 0..(BITS - 1) : Bit(to_le_bytes(v), j) = 1 }

\* The largest and the smallest of a nonempty set of numbers.
MaxOf(S) == CHOOSE m \in S : \A j \in S : j <= m

MinOf(S) == CHOOSE m \in S : \A j \in S : m <= j

\* C24: leading_zeros(v) is the number of zero bits above the most
\* significant set bit and trailing_zeros(v) the number below the least
\* significant one, both BITS for 0, whether or not the loop leaves early:
\* the signed MAX >> 2 has 3 leading zeros, MIN has 0, MAX has 1, zero 256.
C24_LeadingTrailingZeros ==
    /\ op = "leading_zeros" =>
          /\ res.val = IF SetBits(a) = {} THEN BITS ELSE BITS - 1 - MaxOf(SetBits(a))
          /\ a = from_le_bytes(Rep(31, 255) \o << 31 >>) => res.val = 3
          /\ a = from_le_bytes(Sample(4)) => res.val = 0
          /\ a = from_le_bytes(Sample(5)) => res.val = 1
          /\ a = from_u8(u8(0)) => res.val = 256
    /\ op = "trailing_zeros" =>
          res.val = IF SetBits(a) = {} THEN BITS ELSE MinOf(SetBits(a))

\* 2^128 has 127 leading zeros: the loop left after the first nonzero limb,
\* with zero limbs below it that it did not count.
C24_Witness ==
    /\ op = "leading_zeros"
    /\ a = from_le_bytes(Sample(7))
    /\ res.val = 127
    /\ leading_zeros_every_limb(a, 0, 0) > 127

\* v is positive as a number: not 0 and, for the signed type, the top bit clear.
IsPositive(v) == SetBits(v) # {} /\ ~(is_signed /\ (BITS - 1) \in SetBits(v))

Ilog2IsFloorLog ==
    op = "checked_ilog2" =>
        IF IsPositive(a)
        THEN res.tag = "Some" /\ res.val = MaxOf(SetBits(a))
        ELSE res.tag = "None"

\* C25: checked_ilog2(v) is None exactly when v <= 0 and otherwise Some(r)
\* with 2^r <= v < 2^(r+1), r being the place of the highest set bit; the
\* value of the little-endian 64-bit limbs [0, 0, 1, 0] gives Some(128).
C25_CheckedIlog2 ==
    /\ Ilog2IsFloorLog
    /\ (op = "checked_ilog2" /\ limb_bits = 64 /\ a = from_le_bytes(Sample(7))) =>
           (res.tag = "Some" /\ res.val = 128)

\* The same with two wide words (64-bit limbs) only.
C25_HoldsWithFourLimbs == limb_bits = 64 => C25_CheckedIlog2

(***************************************************************************)
(* The carry out of the signed addition with a carry in                    *)
(***************************************************************************)
\* The signed number of the two's complement bytes of v, modulo p.
SignedResidue(v, p) ==
    LET x == to_le_bytes(v)
    IN  (Residue(x, 1, p) + p - (IF x[BYTES] >= 128 THEN TwoToBits(p) ELSE 0)) % p

\* x + y + c = s as signed numbers: the exact sum is the wrapped one, that
\* is, it lies between MIN and MAX.
SignedSum3Is(x, y, c, s) ==
    \A p \in Moduli :
        (SignedResidue(x, p) + SignedResidue(y, p) + Bit01(c)) % p = SignedResidue(s, p)

SignedCarryFlagIsExact ==
    /\ op = "carrying_add" =>
          /\ res.val[1] = wrapping_add(wrapping_add(a, b), from_u8(u8(Bit01(arg))))
          /\ res.val[2] <=> ~SignedSum3Is(a, b, arg, res.val[1])
    /\ op = "borrowing_sub" =>
          /\ res.val[1] = wrapping_sub(wrapping_sub(a, b), from_u8(u8(Bit01(arg))))
          /\ res.val[2] <=> ~SignedSum3Is(res.val[1], b, arg, a)

\* C26: for the signed type carrying_add(a, b, carry) returns the wrapped sum
\* and a flag that is true exactly when the exact a + b + carry lies outside
\* [MIN, MAX], and likewise borrowing_sub for a - b - borrow; the flag for
\* MIN + (-1) + 1 is false.
C26_SignedCarryFlag ==
    is_signed =>
        /\ SignedCarryFlagIsExact
        /\ (op = "carrying_add" /\ a = min_value /\ b = from_i8(i8(-1)) /\ arg) =>
               ~res.val[2]

\* The same whenever the two overflow signals inside are not both raised.
C26_HoldsUnlessBothSignals ==
    (is_signed /\ op \in {"carrying_add", "borrowing_sub"}) =>
        LET r == IF op = "carrying_add"
                 THEN carrying_add_parts(a, b, arg)
                 ELSE borrowing_sub_parts(a, b, arg)
        IN  ~(r[2] /\ r[3]) => SignedCarryFlagIsExact

(***************************************************************************)
(* The exact power and the flag of overflowing_pow                         *)
(***************************************************************************)
\* The magnitude of v as a value read without a sign: v, or -v for a
\* negative v (2^255 for the signed MIN).
Magnitude(v) == IF is_negative(v) THEN wrapping_neg(v) ELSE v

\* A magnitude of 2^BITS or more.
Huge == [limbs |-> << >>]

\* The exact product of two magnitudes, Huge from 2^BITS on.  No magnitude
\* multiplied here is 0 when the other is Huge.
MagMul(m, n) ==
    IF m = Huge \/ n = Huge THEN Huge
    ELSE LET w == widening_mul(m, n)
         IN  IF \A k \in (LIMBS + 1)..(2 * LIMBS) : is_zero(w[k])
             THEN from_le_limbs(SubSeq(w, 1, LIMBS))
             ELSE Huge

\* The exact e-th power of a magnitude, from m^0 = 1, m^(2k) = (m^k)^2 and
\* m^(k+1) = m^k * m.
RECURSIVE MagPow(_, _)
MagPow(m, e) ==
    IF e = 0 THEN from_u8(u8(1))
    ELSE IF e % 2 = 0
    THEN LET h == MagPow(m, e \div 2) IN MagMul(h, h)
    ELSE MagMul(MagPow(m, e - 1), m)

\* The exact power v^e is a value of the type.
PowerFits(v, e) ==
    LET m == MagPow(Magnitude(v), e)
    IN  /\ m # Huge
        /\ is_signed =>
              \/ to_le_bytes(m)[BYTES] < 128
              \/ (is_negative(v) /\ e % 2 = 1 /\ to_le_bytes(m) = Sample(4))

\* C27: overflowing_pow(x, e) is (wrapping_pow(x, e), f) with f true exactly
\* when the exact power x^e is outside the range of the type: an overflow of
\* any squaring or accumulation step is kept, and no squaring sets the flag
\* without its result being used in the final product.
C27_OverflowingPowFlag ==
    op = "overflowing_pow" =>
        /\ res.val[1] = wrapping_pow(a, arg)
        /\ res.val[2] <=> ~PowerFits(a, ExpNum(arg))

\* (-2)^255 is the signed MIN: the squarings reach 2^128 and the accumulator
\* -2^127 without an overflow, and the flag stays down.
C27_Witness ==
    /\ is_signed
    /\ op = "overflowing_pow"
    /\ a = from_i8(i8(-2))
    /\ arg = prim(255, 4)
    /\ res.val = << min_value, FALSE >>

(***************************************************************************)
(* The loops of wrapping_pow and overflowing_pow, turn by turn             *)
(***************************************************************************)
\* How many of the exponents below the loops are run on.
NumExps == 6

\* Exponents, as the four bytes of a u32.
ExpTable ==
    << << 0, 0, 0, 0 >>,              \* 0
       << 1, 0, 0, 0 >>,              \* 1
       << 2, 0, 0, 0 >>,              \* 2
       << 5, 0, 0, 0 >>,              \* 5
       << 0, 1, 0, 0 >>,              \* 256
       << 255, 255, 255, 255 >>,      \* u32::MAX
       << 0, 0, 0, 128 >> >>          \* 2^31

Exps == { ExpTable[k] : k \in 1..NumExps }

\* The locals of a call at its entry; turns counts the turns of the loop.
Locals(self, exp) ==
    [exp |-> exp, base |-> self, acc |-> from_u8(u8(1)), overflowed |-> FALSE,
     r |-> << from_u8(u8(1)), FALSE >>, turns |-> 0]

\* A turn of the loop of wrapping_pow that does not return at exp == 1.
wrapping_pow_turn_without_return(l) ==
    LET odd == l.exp[1] % 2 = 1
        acc1 == IF odd THEN wrapping_mul(l.acc, l.base) ELSE l.acc
        exp1 == prim_half(l.exp, 1)
    IN  [pc |-> IF is_zero(exp1) THEN "assert_failed" ELSE "loop",
         l |-> [l EXCEPT !.acc = acc1, !.exp = exp1,
                         !.base = wrapping_mul(l.base, l.base), !.turns = @ + 1]]

\* One turn of the loop of wrapping_pow: where it goes next (the return, the
\* next turn, or the failure of the debug assertion) and its locals then.
wrapping_pow_turn(l) ==
    LET odd == l.exp[1] % 2 = 1
        acc1 == IF odd THEN wrapping_mul(l.acc, l.base) ELSE l.acc
        exp1 == prim_half(l.exp, 1)
    IN  IF odd /\ l.exp = prim(1, 4)
        THEN [pc |-> "return", l |-> [l EXCEPT !.acc = acc1, !.turns = @ + 1]]
        ELSE [pc |-> IF is_zero(exp1) THEN "assert_failed" ELSE "loop",
              l |-> [l EXCEPT !.acc = acc1, !.exp = exp1,
                              !.base = wrapping_mul(l.base, l.base), !.turns = @ + 1]]

\* One turn of the loop of overflowing_pow.
overflowing_pow_turn(l) ==
    LET odd == l.exp[1] % 2 = 1
        r == IF odd THEN overflowing_mul(l.acc, l.base) ELSE l.r
        exp1 == prim_half(l.exp, 1)
        r2 == overflowing_mul(l.base, l.base)
    IN  IF odd /\ l.exp = prim(1, 4)
        THEN [pc |-> "return",
              l |-> [l EXCEPT !.r = << r[1], r[2] \/ l.overflowed >>, !.turns = @ + 1]]
        ELSE [pc |-> IF is_zero(exp1) THEN "assert_failed" ELSE "loop",
              l |-> [l EXCEPT !.acc = IF odd THEN r[1] ELSE @,
                              !.exp = exp1,
                              !.base = r2[1],
                              !.overflowed = (IF odd THEN @ \/ r[2] ELSE @) \/ r2[2],
                              !.r = r2,
                              !.turns = @ + 1]]

InitPowLoop ==
    /\ limb_bits \in {32, 64}
    /\ big_endian \in BOOLEAN
    /\ is_signed \in BOOLEAN
    /\ overflow_checks = FALSE
    /\ a = from_u8(u8(3))
    /\ b = a
    /\ arg \in Exps
    /\ raw = << >>
    /\ op = "init"
    /\ res = None

\* The entry of wrapping_pow: it returns 1 at once for the exponent 0.
WrappingPowEnter ==
    /\ op = "init"
    /\ op' = IF is_zero(arg) THEN "wrapping_pow:return" ELSE "wrapping_pow:loop"
    /\ res' = Locals(a, arg)
    /\ UNCHANGED << Config, a, b, arg, raw >>

WrappingPowTurn ==
    /\ op = "wrapping_pow:loop"
    /\ LET t == wrapping_pow_turn(res)
       IN  /\ op' = "wrapping_pow:" \o t.pc
           /\ res' = t.l
    /\ UNCHANGED << Config, a, b, arg, raw >>

OverflowingPowEnter ==
    /\ op = "init"
    /\ op' = IF is_zero(arg) THEN "overflowing_pow:return" ELSE "overflowing_pow:loop"
    /\ res' = Locals(a, arg)
    /\ UNCHANGED << Config, a, b, arg, raw >>

OverflowingPowTurn ==
    /\ op = "overflowing_pow:loop"
    /\ LET t == overflowing_pow_turn(res)
       IN  /\ op' = "overflowing_pow:" \o t.pc
           /\ res' = t.l
    /\ UNCHANGED << Config, a, b, arg, raw >>

NextPowLoop ==
    \/ WrappingPowEnter
    \/ WrappingPowTurn
    \/ OverflowingPowEnter
    \/ OverflowingPowTurn

SpecPowLoop == InitPowLoop /\ [][NextPowLoop]_vars

\* Weak fairness of the turns, WF_vars(WrappingPowTurn \/ OverflowingPowTurn),
\* with the enabling condition written out: a turn is possible exactly in the
\* states where a loop is running, and every turn changes the state.
TurnsAreFair ==
    \/ []<>(~(op \in { "wrapping_pow:loop", "overflowing_pow:loop" }))
    \/ []<><<WrappingPowTurn \/ OverflowingPowTurn>>_vars

\* A call is made, and a call that has started goes on: the loop is
\* sequential code that nothing pre-empts.
SpecPowLoopFair ==
    /\ SpecPowLoop
    /\ WF_vars(WrappingPowEnter \/ OverflowingPowEnter)
    /\ TurnsAreFair

\* floor(log2(exp)) + 1 for exp >= 1, and 0 for exp = 0.
TurnsOf(exp) ==
    IF is_zero(exp) THEN 0 ELSE 1 + MaxOf({ j \in 0..31 : Bit(exp, j) = 1 })

Returned == op \in { "wrapping_pow:return", "overflowing_pow:return" }

InLoop == op \in { "wrapping_pow:loop", "overflowing_pow:loop" }

\* What holds of every state of the loops: the debug assertion never fails,
\* the exponent is not 0 at the head of a turn, and a call that has returned
\* has made floor(log2(exp)) + 1 turns, none for exp = 0.
PowLoopsAreSound ==
    /\ op \notin { "wrapping_pow:assert_failed", "overflowing_pow:assert_failed" }
    /\ InLoop => (~is_zero(res.exp) /\ res.turns < TurnsOf(arg))
    /\ Returned => res.turns = TurnsOf(arg)
    /\ op = "wrapping_pow:return" => res.acc = wrapping_pow(a, arg)
    /\ op = "overflowing_pow:return" => res.r = overflowing_pow(a, arg)

\* C28: for every u32 exponent the loops of wrapping_pow and overflowing_pow
\* terminate, after floor(log2(exp)) + 1 turns for exp >= 1 and none for
\* exp = 0, and the debug assertion exp != 0 holds in every turn.
C28_PowLoopsTerminate == []PowLoopsAreSound /\ <>Returned

\* wrapping_pow has returned for the exponent u32::MAX, after 32 turns.
C28_Witness ==
    /\ op = "wrapping_pow:return"
    /\ arg = Rep(4, 255)
    /\ res.turns = 32

(***************************************************************************)
(* C29: swap_bytes and the big-endian exports                              *)
(***************************************************************************)
\* swap_bytes reverses the bytes of the value, in memory as in significance.
BytesAreSwapped(v, w) ==
    /\ \A j \in 0..(BYTES - 1) :
          /\ At(to_le_bytes(w), j) = At(to_le_bytes(v), BYTES - 1 - j)
          /\ At(to_ne_bytes(w), j) = At(to_ne_bytes(v), BYTES - 1 - j)

\* C29: byte j of swap_bytes(v) is byte BYTES - 1 - j of v, so that swapping
\* twice gives v back; to_be_bytes is to_le_bytes reversed and to_be_limbs is
\* to_le_limbs reversed, on either endianness of the target and with either
\* limb width.
C29_SwapBytes ==
    /\ op = "swap_bytes" => BytesAreSwapped(a, res.val)
    /\ op = "swap_bytes_twice" => res.val = a
    /\ op = "to_be_bytes" => res.val = Rev(to_le_bytes(a))
    /\ op = "to_be_limbs" => res.val = Rev(to_le_limbs(a))

\* The bytes of a value that is not its own reversal have been swapped, on a
\* big-endian target with eight limbs.
C29_Witness ==
    /\ op = "swap_bytes"
    /\ big_endian
    /\ limb_bits = 32
    /\ to_le_bytes(a) = Rep(31, 255) \o << 31 >>
    /\ to_le_bytes(res.val) = << 31 >> \o Rep(31, 255)

(***************************************************************************)
(* C30: the rotations of the unsigned type                                 *)
(***************************************************************************)
\* y is x rotated left by n bits: bit j of x is bit (j + n) mod BITS of y.
RotlIs(x, n, y) ==
    \A j \in 0..(BITS - 1) : Bit(y, (j + n) % BITS) = Bit(x, j)

\* The amount of the rotation modulo BITS, as a number.
RotAmount == arg.val[1] % BITS

\* The bitwise OR of two values.
BitOr(x, y) == [limbs |-> [i \in 1..LIMBS |-> prim_or(x.limbs[i], y.limbs[i])]]

\* C30: for every unsigned v and u32 n, rotate_left(v, n) is
\* wrapping_shl(v, n mod BITS) | wrapping_shr(v, BITS - n mod BITS) when
\* n mod BITS is not 0 and v otherwise; it moves bit j to bit (j + n) mod BITS,
\* keeps count_ones, is undone by rotate_right(., n), and is
\* rotate_left(v, n mod BITS).
C30_Rotate ==
    /\ op = "rotate_left" =>
          /\ res.tag = "Ok"
          /\ RotlIs(to_le_bytes(a), RotAmount, to_le_bytes(res.val))
          /\ count_ones(res.val) = count_ones(a)
          /\ res = rotate_left(a, prim(RotAmount, 4))
          /\ RotAmount = 0 => res.val = a
          /\ RotAmount # 0 =>
                res.val = BitOr(wrapping_shl(a, prim(RotAmount, 4)).val,
                                wrapping_shr(a, prim(BITS - RotAmount, 4)).val)
    /\ op = "rotate_right" =>
          /\ res.tag = "Ok"
          /\ RotlIs(to_le_bytes(res.val), RotAmount, to_le_bytes(a))
    /\ op = "rotate_left_right" => (res.tag = "Ok" /\ res.val = a)

\* C30 holds of the build with 64-bit limbs.
C30_HoldsWithFourLimbs == limb_bits = 64 => C30_Rotate

\* With four limbs the six-limb data has been rotated left by 2^32 - 1, that is
\* by 255 bits, and is not what it was.
C30_HoldsWithFourLimbsWitness ==
    /\ limb_bits = 64
    /\ op = "rotate_left"
    /\ arg.val = Rep(4, 255)
    /\ res.tag = "Ok"
    /\ res.val # a

====
